---------------------------- MODULE Spec2Model ----------------------------
(***************************************************************************)
(* A model of the HFT-Orderbook Rust crate: the Order record (order.rs),   *)
(* the Limit price level (limit.rs) and the OrderBook arena structure      *)
(* (orderbook.rs) with its binary-search trees of levels.                  *)
(*                                                                         *)
(* Conventions.                                                            *)
(*  - A Vec slot index k of the Rust code is the handle k+1 here, so a     *)
(*    Vec is a TLA+ sequence and Option<usize> is a number with NONE = 0.  *)
(*  - Option<Order> / Option<Limit> is a sequence of length 0 (None) or 1  *)
(*    (Some).                                                              *)
(*  - A HashMap is a function whose DOMAIN is its key set.                 *)
(*  - Quantity and Price are u64 in the source; here they are unsigned     *)
(*    integers of QuantityBits bits and the u128 notional has twice that   *)
(*    width.  `+=` / `-=` panic on overflow in a build with                *)
(*    debug assertions and wrap in a release build.                        *)
(*  - A panic (an unwrap of None, a failed debug_assert, an arithmetic     *)
(*    overflow check) ends the run: the variable panicked becomes TRUE     *)
(*    and no further call is made.                                         *)
(***************************************************************************)
EXTENDS Integers, Sequences, FiniteSets, TLC

VARIABLES
    book,              \* the OrderBook value
    held,              \* the Order value the caller holds (remove_order returned it)
    panicked,          \* a call panicked: the run is over
    calls,             \* how many calls have changed the book so far
    debug_assertions   \* the build: overflow checks and debug_assert! are on

vars == <<book, held, panicked, calls, debug_assertions>>

\* ------------------------------------------------------------------ bounds
MaxId == 3
MaxPrice == 3
MaxQty == 2
MaxTime == 1
MaxCalls == 4
\* how many resting orders at a time were partly filled before they were added
MaxFilledOrders == 1
\* how many AvlTree methods a caller applies on top of MaxCalls book calls
MaxTreeCalls == 1

\* Width of Quantity / Price (u64 in types.rs), scaled down.
QuantityBits == 2

QMod == 2 ^ QuantityBits
VMod == QMod * QMod

NONE == 0

Ids == 1..MaxId
Prices == 0..MaxPrice
Quantities == 0..MaxQty
Times == 0..MaxTime
Sides == {"Buy", "Sell"}

Min(a, b) == IF a < b THEN a ELSE b

\* ------------------------------------------------------------------ order.rs

\* Order::new
Order_new(id, side, quantity, price, entry_time, exchange_id) ==
    [id |-> id, side |-> side, quantity |-> quantity,
     remaining_quantity |-> quantity, price |-> price,
     entry_time |-> entry_time, event_time |-> entry_time,
     exchange_id |-> exchange_id, status |-> "Active",
     next_order_index |-> NONE, prev_order_index |-> NONE,
     parent_limit_index |-> NONE]

\* Order::filled_quantity (u64 subtraction, wrapping in a release build)
filled_quantity(self) ==
    (self.quantity - self.remaining_quantity) % QMod

\* cancel leaving event_time as it was
cancel_keeping_event_time(self, event_time) ==
    [self EXCEPT !.status = "Cancelled"]

\* Order::cancel
cancel(self, event_time) ==
    [self EXCEPT !.status = "Cancelled", !.event_time = event_time]

\* fill taking the whole requested quantity, whatever remains
fill_unclamped(self, quantity, event_time) ==
    [self EXCEPT !.remaining_quantity = (@ - quantity) % QMod,
                 !.event_time = event_time,
                 !.status = IF (self.remaining_quantity - quantity) % QMod = 0
                            THEN "Filled" ELSE "PartiallyFilled"]

\* Order::fill: the order after the fill
fill(self, quantity, event_time) ==
    LET fill_quantity == Min(quantity, self.remaining_quantity)
        rem == self.remaining_quantity - fill_quantity
    IN  [self EXCEPT !.remaining_quantity = rem,
                     !.event_time = event_time,
                     !.status = IF rem = 0 THEN "Filled"
                                ELSE IF rem < self.quantity THEN "PartiallyFilled"
                                ELSE @]

\* Order::fill: the returned quantity
fill_returns(self, quantity) ==
    Min(quantity, self.remaining_quantity)

\* update_quantity accepting every new quantity
update_quantity_ok_unchecked(self, new_quantity) == TRUE

\* Order::update_quantity: the returned bool
update_quantity_ok(self, new_quantity) ==
    ~(new_quantity < filled_quantity(self))

\* update_quantity forgetting what the order has filled
update_quantity_resetting(self, new_quantity, event_time) ==
    IF ~update_quantity_ok(self, new_quantity) THEN self
    ELSE [self EXCEPT !.quantity = new_quantity,
                      !.remaining_quantity = new_quantity,
                      !.event_time = event_time,
                      !.status = IF new_quantity = 0 THEN "Filled" ELSE "Active"]

\* Order::update_quantity: the order afterwards
update_quantity(self, new_quantity, event_time) ==
    IF ~update_quantity_ok(self, new_quantity) THEN self
    ELSE LET filled == filled_quantity(self)
             rem == new_quantity - filled
         IN  [self EXCEPT !.quantity = new_quantity,
                          !.remaining_quantity = rem,
                          !.event_time = event_time,
                          !.status = IF rem = 0 THEN "Filled"
                                     ELSE IF (new_quantity - rem) % QMod > 0
                                          THEN "PartiallyFilled"
                                     ELSE "Active"]

\* ------------------------------------------------------------------ avl_tree.rs

\* AvlNode::new
AvlNode_new ==
    [parent |-> NONE, left_child |-> NONE, right_child |-> NONE, height |-> 1]

\* The AvlTree trait, as `impl AvlTree<Limit> for OrderBook` instantiates it
\* (orderbook.rs): get_node(index) is limits[index].avl_node and panics on a
\* vacant slot.  The operators work on the limits arena.

\* whether get_node(index) returns
node_exists(limits, index) ==
    index \in 1..Len(limits) /\ limits[index] # <<>>

\* AvlTree::calculate_height (of a slot that get_node can read, or of None)
calculate_height(limits, index) ==
    IF index = NONE THEN 0 ELSE limits[index][1].avl_node.height

\* whether update_height / balance_factor can read the node and its children
children_exist(limits, index) ==
    /\ node_exists(limits, index)
    /\ limits[index][1].avl_node.left_child # NONE
           => node_exists(limits, limits[index][1].avl_node.left_child)
    /\ limits[index][1].avl_node.right_child # NONE
           => node_exists(limits, limits[index][1].avl_node.right_child)

\* AvlTree::balance_factor
balance_factor(limits, index) ==
    calculate_height(limits, limits[index][1].avl_node.right_child)
        - calculate_height(limits, limits[index][1].avl_node.left_child)

\* A helper's outcome: the book (or the limits arena) it leaves, what it
\* returns, and whether it panicked on the way.
Done(b, ret) == [b |-> b, ret |-> ret, panic |-> FALSE]
Panicked(b) == [b |-> b, ret |-> NONE, panic |-> TRUE]

\* update_height leaving the stored height as it was
update_height_keeping(limits, index) ==
    IF ~children_exist(limits, index) THEN Panicked(limits)
    ELSE Done(limits, index)

\* AvlTree::update_height
update_height(limits, index) ==
    IF ~children_exist(limits, index) THEN Panicked(limits)
    ELSE LET Higher(left_height, right_height) ==
                 IF left_height > right_height THEN left_height ELSE right_height
         IN  Done([limits EXCEPT ![index][1].avl_node.height =
                          1 + Higher(calculate_height(limits,
                                         limits[index][1].avl_node.left_child),
                                     calculate_height(limits,
                                         limits[index][1].avl_node.right_child))],
                      index)

\* AvlTree::rotate_left
rotate_left(limits, x_index) ==
    IF ~node_exists(limits, x_index) THEN Panicked(limits)
    ELSE IF limits[x_index][1].avl_node.right_child = NONE THEN Panicked(limits)
    ELSE IF ~node_exists(limits, limits[x_index][1].avl_node.right_child)
    THEN Panicked(limits)
    ELSE LET \* the heights of x, then y, are updated
             HeightOfY(u, y_index) ==
                 IF u.panic THEN u
                 ELSE update_height(u.b, y_index)
             \* the parent's child pointer is updated (l4)
             Attached(l4, y_index) == HeightOfY(update_height(l4, x_index), y_index)
             \* the parents of x and y are updated (l3)
             Parented(l3, y_index, x_parent) ==
                 IF x_parent = NONE THEN Attached(l3, y_index)
                 ELSE IF ~node_exists(l3, x_parent) THEN Panicked(l3)
                 ELSE IF l3[x_parent][1].avl_node.left_child = x_index
                 THEN Attached([l3 EXCEPT ![x_parent][1].avl_node.left_child = y_index],
                               y_index)
                 ELSE Attached([l3 EXCEPT ![x_parent][1].avl_node.right_child = y_index],
                               y_index)
             \* the children are exchanged (l1)
             Rotated(l1, y_index, x_parent, y_left) ==
                 IF y_left # NONE /\ ~node_exists(l1, y_left) THEN Panicked(l1)
                 ELSE Parented([[[l1 EXCEPT ![IF y_left # NONE THEN y_left ELSE x_index][1]
                                                 .avl_node.parent =
                                                 IF y_left # NONE THEN x_index ELSE @]
                                     EXCEPT ![x_index][1].avl_node.parent = y_index]
                                     EXCEPT ![y_index][1].avl_node.parent = x_parent],
                               y_index, x_parent)
             Started(y_index, x_parent, y_left) ==
                 Rotated([[limits EXCEPT ![x_index][1].avl_node.right_child = y_left]
                              EXCEPT ![y_index][1].avl_node.left_child = x_index],
                         y_index, x_parent, y_left)
         IN  Started(limits[x_index][1].avl_node.right_child,
                     limits[x_index][1].avl_node.parent,
                     limits[limits[x_index][1].avl_node.right_child][1]
                         .avl_node.left_child)

\* AvlTree::rotate_right
rotate_right(limits, y_index) ==
    IF ~node_exists(limits, y_index) THEN Panicked(limits)
    ELSE IF limits[y_index][1].avl_node.left_child = NONE THEN Panicked(limits)
    ELSE IF ~node_exists(limits, limits[y_index][1].avl_node.left_child)
    THEN Panicked(limits)
    ELSE LET \* the heights of y, then x, are updated
             HeightOfX(u, x_index) ==
                 IF u.panic THEN u
                 ELSE update_height(u.b, x_index)
             \* the parent's child pointer is updated (l4)
             Attached(l4, x_index) == HeightOfX(update_height(l4, y_index), x_index)
             \* the parents of y and x are updated (l3)
             Parented(l3, x_index, y_parent) ==
                 IF y_parent = NONE THEN Attached(l3, x_index)
                 ELSE IF ~node_exists(l3, y_parent) THEN Panicked(l3)
                 ELSE IF l3[y_parent][1].avl_node.left_child = y_index
                 THEN Attached([l3 EXCEPT ![y_parent][1].avl_node.left_child = x_index],
                               x_index)
                 ELSE Attached([l3 EXCEPT ![y_parent][1].avl_node.right_child = x_index],
                               x_index)
             \* the children are exchanged (l1)
             Rotated(l1, x_index, y_parent, x_right) ==
                 IF x_right # NONE /\ ~node_exists(l1, x_right) THEN Panicked(l1)
                 ELSE Parented([[[l1 EXCEPT ![IF x_right # NONE THEN x_right ELSE y_index][1]
                                                 .avl_node.parent =
                                                 IF x_right # NONE THEN y_index ELSE @]
                                     EXCEPT ![y_index][1].avl_node.parent = x_index]
                                     EXCEPT ![x_index][1].avl_node.parent = y_parent],
                               x_index, y_parent)
             Started(x_index, y_parent, x_right) ==
                 Rotated([[limits EXCEPT ![y_index][1].avl_node.left_child = x_right]
                              EXCEPT ![x_index][1].avl_node.right_child = y_index],
                         x_index, y_parent, x_right)
         IN  Started(limits[y_index][1].avl_node.left_child,
                     limits[y_index][1].avl_node.parent,
                     limits[limits[y_index][1].avl_node.left_child][1]
                         .avl_node.right_child)

\* balance rotating once in every case
balance_single_rotation(limits, index) ==
    LET Balanced(u) ==
            IF u.panic THEN u
            ELSE IF balance_factor(u.b, index) > 1 THEN rotate_left(u.b, index)
            ELSE IF balance_factor(u.b, index) < -1 THEN rotate_right(u.b, index)
            ELSE Done(u.b, index)
    IN  Balanced(update_height(limits, index))

\* AvlTree::balance
balance(limits, index) ==
    LET \* the child was rotated, or not: rotate the node
        RightHeavy(c) == IF c.panic THEN c ELSE rotate_left(c.b, index)
        LeftHeavy(c) == IF c.panic THEN c ELSE rotate_right(c.b, index)
        \* the height of the node is updated (u)
        Balanced(u) ==
            IF u.panic THEN u
            ELSE IF balance_factor(u.b, index) > 1
            THEN IF ~children_exist(u.b, u.b[index][1].avl_node.right_child)
                 THEN Panicked(u.b)
                 ELSE IF balance_factor(u.b, u.b[index][1].avl_node.right_child) < 0
                 THEN RightHeavy(rotate_right(u.b, u.b[index][1].avl_node.right_child))
                 ELSE RightHeavy(Done(u.b, index))
            ELSE IF balance_factor(u.b, index) < -1
            THEN IF ~children_exist(u.b, u.b[index][1].avl_node.left_child)
                 THEN Panicked(u.b)
                 ELSE IF balance_factor(u.b, u.b[index][1].avl_node.left_child) > 0
                 THEN LeftHeavy(rotate_left(u.b, u.b[index][1].avl_node.left_child))
                 ELSE LeftHeavy(Done(u.b, index))
            ELSE Done(u.b, index)
    IN  Balanced(update_height(limits, index))

\* ------------------------------------------------------------------ limit.rs

\* Limit::new
Limit_new(price, side) ==
    [price |-> price, size |-> 0, total_volume |-> 0, order_count |-> 0,
     side |-> side, avl_node |-> AvlNode_new,
     head_order_index |-> NONE, tail_order_index |-> NONE]

\* A level taken to be empty when its size is 0 (rather than its order count)
is_empty_by_size(self) == self.size = 0

\* Limit::is_empty
is_empty(self) == self.order_count = 0

\* Limit::add_order_stats: whether a checked `+=` overflows
add_order_stats_overflows(self, quantity) ==
    \/ self.size + quantity >= QMod
    \/ self.total_volume + self.price * quantity >= VMod

\* Limit::add_order_stats (wrapping arithmetic)
add_order_stats(self, quantity) ==
    [self EXCEPT !.size = (self.size + quantity) % QMod,
                 !.total_volume = (self.total_volume + self.price * quantity) % VMod,
                 !.order_count = @ + 1]

\* Limit::remove_order_stats: a debug_assert fails or a checked `-=` underflows
remove_order_stats_overflows(self, quantity) ==
    \/ ~(self.size >= quantity)
    \/ ~(self.order_count > 0)
    \/ self.total_volume - self.price * quantity < 0

\* Limit::remove_order_stats (wrapping arithmetic; order_count is a usize that
\* is positive whenever the book calls this)
remove_order_stats(self, quantity) ==
    [self EXCEPT !.size = (self.size - quantity) % QMod,
                 !.total_volume = (self.total_volume - self.price * quantity) % VMod,
                 !.order_count = @ - 1]

\* Limit::update_order_stats: whether a checked `+=` / `-=` overflows
update_order_stats_overflows(self, old_quantity, new_quantity) ==
    IF new_quantity > old_quantity
    THEN LET diff == new_quantity - old_quantity
         IN  \/ self.size + diff >= QMod
             \/ self.total_volume + self.price * diff >= VMod
    ELSE IF old_quantity > new_quantity
    THEN LET diff == old_quantity - new_quantity
         IN  \/ self.size - diff < 0
             \/ self.total_volume - self.price * diff < 0
    ELSE FALSE

\* Limit::update_order_stats (wrapping arithmetic)
update_order_stats(self, old_quantity, new_quantity) ==
    IF new_quantity > old_quantity
    THEN LET diff == new_quantity - old_quantity
         IN  [self EXCEPT !.size = (self.size + diff) % QMod,
                          !.total_volume = (self.total_volume + self.price * diff) % VMod]
    ELSE IF old_quantity > new_quantity
    THEN LET diff == old_quantity - new_quantity
         IN  [self EXCEPT !.size = (self.size - diff) % QMod,
                          !.total_volume = (self.total_volume - self.price * diff) % VMod]
    ELSE self

\* ------------------------------------------------------------------ orderbook.rs

\* OrderBook::new
OrderBook_new ==
    [orders |-> <<>>, free_order_indices |-> <<>>, order_id_to_index |-> <<>>,
     limits |-> <<>>, free_limit_indices |-> <<>>, price_to_limit_index |-> <<>>,
     buy_tree_root |-> NONE, sell_tree_root |-> NONE,
     best_bid_index |-> NONE, best_ask_index |-> NONE,
     current_time |-> 0]

\* `vec[i].as_ref()` is Some: the slot exists and is occupied
Occupied(vec, i) == i \in 1..Len(vec) /\ vec[i] # <<>>

\* HashMap::insert / HashMap::remove
MapInsert(m, k, v) == [x \in (DOMAIN m) \cup {k} |-> IF x = k THEN v ELSE m[x]]
MapKeep(m, k) == m
MapRemove(m, k) == [x \in (DOMAIN m) \ {k} |-> m[x]]

\* Vec::pop on a non-empty Vec: the Vec afterwards
Front(v) == SubSeq(v, 1, Len(v) - 1)

\* OrderBook::set_time
set_time(self, timestamp) == [self EXCEPT !.current_time = timestamp]

\* OrderBook::best_bid: <<>> for None, <<price, size>> for Some
best_bid(self) ==
    IF self.best_bid_index # NONE /\ Occupied(self.limits, self.best_bid_index)
    THEN <<self.limits[self.best_bid_index][1].price,
           self.limits[self.best_bid_index][1].size>>
    ELSE <<>>

\* OrderBook::best_ask
best_ask(self) ==
    IF self.best_ask_index # NONE /\ Occupied(self.limits, self.best_ask_index)
    THEN <<self.limits[self.best_ask_index][1].price,
           self.limits[self.best_ask_index][1].size>>
    ELSE <<>>

\* OrderBook::volume_at_price: <<>> for None, <<size>> for Some
volume_at_price(self, price) ==
    IF price \in DOMAIN self.price_to_limit_index
       /\ Occupied(self.limits, self.price_to_limit_index[price])
    THEN <<self.limits[self.price_to_limit_index[price]][1].size>>
    ELSE <<>>

\* OrderBook::orders_at_price
orders_at_price(self, price) ==
    IF price \in DOMAIN self.price_to_limit_index
       /\ Occupied(self.limits, self.price_to_limit_index[price])
    THEN <<self.limits[self.price_to_limit_index[price]][1].order_count>>
    ELSE <<>>

\* OrderBook::contains_order
contains_order(self, order_id) == order_id \in DOMAIN self.order_id_to_index

\* OrderBook::get_order
get_order(self, order_id) ==
    IF order_id \in DOMAIN self.order_id_to_index
       /\ Occupied(self.orders, self.order_id_to_index[order_id])
    THEN self.orders[self.order_id_to_index[order_id]]
    ELSE <<>>

\* OrderBook::total_orders
total_orders(self) == Cardinality(DOMAIN self.order_id_to_index)

\* OrderBook::total_levels
total_levels(self) == Cardinality(DOMAIN self.price_to_limit_index)

\* OrderBook::spread: <<>> for None, <<difference>> for Some
spread(self) ==
    IF best_ask(self) # <<>> /\ best_bid(self) # <<>>
    THEN IF best_ask(self)[1] > best_bid(self)[1]
         THEN <<best_ask(self)[1] - best_bid(self)[1]>>
         ELSE <<0>>
    ELSE <<>>

\* OrderBook::mid_price: whether the checked u64 `+` overflows
mid_price_overflows(self) ==
    /\ best_ask(self) # <<>>
    /\ best_bid(self) # <<>>
    /\ best_ask(self)[1] + best_bid(self)[1] >= QMod

\* OrderBook::mid_price (wrapping arithmetic): <<>> for None, <<price>> for Some
mid_price(self) ==
    IF best_ask(self) # <<>> /\ best_bid(self) # <<>>
    THEN <<((best_ask(self)[1] + best_bid(self)[1]) % QMod) \div 2>>
    ELSE <<>>

\* `prices.sort()`: the keys of a set in ascending order
RECURSIVE SortAscending(_)
SortAscending(S) ==
    IF S = {} THEN <<>>
    ELSE LET m == CHOOSE x \in S : \A y \in S : x <= y
         IN  <<m>> \o SortAscending(S \ {m})

\* The reverse of a sequence (a descending sort of an ascending one)
Reverse(s) == [i \in 1..Len(s) |-> s[Len(s) + 1 - i]]

\* Vec::truncate under an Option<usize> depth: <<>> for None, <<d>> for Some(d)
Truncate(v, depth) ==
    IF depth = <<>> THEN v ELSE SubSeq(v, 1, Min(depth[1], Len(v)))

\* OrderBook::get_levels: the two lists of <<price, size>>, and whether the
\* unused mid_price() it computes panicked
get_levels(self, depth) ==
    LET Listed(p) == Occupied(self.limits, self.price_to_limit_index[p])
        Level(p) == self.limits[self.price_to_limit_index[p]][1]
        IsBid(p) == Level(p).side = "Buy"
        IsAsk(p) == Level(p).side # "Buy"
        prices == SelectSeq(SortAscending(DOMAIN self.price_to_limit_index), Listed)
        bid_prices == Reverse(SelectSeq(prices, IsBid))
        ask_prices == SelectSeq(prices, IsAsk)
        bids == [i \in 1..Len(bid_prices) |->
                    <<bid_prices[i], Level(bid_prices[i]).size>>]
        asks == [i \in 1..Len(ask_prices) |->
                    <<ask_prices[i], Level(ask_prices[i]).size>>]
    IN  [bids |-> Truncate(bids, depth), asks |-> Truncate(asks, depth),
         panic |-> debug_assertions /\ mid_price_overflows(self)]

\* OrderBook::allocate_order_index
allocate_order_index(self) ==
    IF self.free_order_indices # <<>>
    THEN [b |-> [self EXCEPT !.free_order_indices = Front(@)],
          ret |-> self.free_order_indices[Len(self.free_order_indices)]]
    ELSE [b |-> [self EXCEPT !.orders = Append(@, <<>>)],
          ret |-> Len(self.orders) + 1]

\* OrderBook::free_order_index
free_order_index(self, index) ==
    [self EXCEPT !.orders[index] = <<>>,
                 !.free_order_indices = Append(@, index)]

\* OrderBook::allocate_limit_index
allocate_limit_index(self) ==
    IF self.free_limit_indices # <<>>
    THEN [b |-> [self EXCEPT !.free_limit_indices = Front(@)],
          ret |-> self.free_limit_indices[Len(self.free_limit_indices)]]
    ELSE [b |-> [self EXCEPT !.limits = Append(@, <<>>)],
          ret |-> Len(self.limits) + 1]

\* OrderBook::free_limit_index
free_limit_index(self, index) ==
    [self EXCEPT !.limits[index] = <<>>,
                 !.free_limit_indices = Append(@, index)]

\* OrderBook::find_min_in_subtree (on the limits arena): the index, or a panic
\* when a visited slot is vacant
RECURSIVE find_min_in_subtree(_, _)
find_min_in_subtree(limits, index) ==
    IF ~Occupied(limits, index) THEN Panicked(limits)
    ELSE IF limits[index][1].avl_node.left_child # NONE
    THEN find_min_in_subtree(limits, limits[index][1].avl_node.left_child)
    ELSE Done(limits, index)

\* OrderBook::find_max_with_orders_recursive
RECURSIVE find_max_with_orders_recursive(_, _)
find_max_with_orders_recursive(limits, root) ==
    IF root = NONE THEN NONE
    ELSE IF Occupied(limits, root)
    THEN LET limit == limits[root][1]
             right_result ==
                 find_max_with_orders_recursive(limits, limit.avl_node.right_child)
         IN  IF ~is_empty(limit)
             THEN IF right_result # NONE THEN right_result ELSE root
             ELSE IF right_result # NONE THEN right_result
                  ELSE find_max_with_orders_recursive(limits, limit.avl_node.left_child)
    ELSE NONE

\* OrderBook::find_min_with_orders_recursive
RECURSIVE find_min_with_orders_recursive(_, _)
find_min_with_orders_recursive(limits, root) ==
    IF root = NONE THEN NONE
    ELSE IF Occupied(limits, root)
    THEN LET limit == limits[root][1]
             left_result ==
                 find_min_with_orders_recursive(limits, limit.avl_node.left_child)
         IN  IF ~is_empty(limit)
             THEN IF left_result # NONE THEN left_result ELSE root
             ELSE IF left_result # NONE THEN left_result
                  ELSE find_min_with_orders_recursive(limits, limit.avl_node.right_child)
    ELSE NONE

\* OrderBook::find_new_best_bid
find_new_best_bid(self) ==
    find_max_with_orders_recursive(self.limits, self.buy_tree_root)

\* OrderBook::find_new_best_ask
find_new_best_ask(self) ==
    find_min_with_orders_recursive(self.limits, self.sell_tree_root)

\* OrderBook::insert_into_tree (on the limits arena)
RECURSIVE insert_into_tree(_, _, _)
insert_into_tree(limits, root, limit_idx) ==
    IF root = NONE THEN Done(limits, limit_idx)
    ELSE IF ~Occupied(limits, limit_idx) \/ ~Occupied(limits, root)
    THEN Panicked(limits)
    ELSE LET limit_price == limits[limit_idx][1].price
             root_price == limits[root][1].price
             \* what follows the recursive call r, which returned new_left
             LeftInserted(r) ==
                 IF r.panic THEN r
                 ELSE IF ~Occupied(r.b, r.ret) THEN Panicked(r.b)
                 ELSE Done([r.b EXCEPT ![root][1].avl_node.left_child = r.ret,
                                       ![r.ret][1].avl_node.parent = root],
                           root)
             \* what follows the recursive call r, which returned new_right
             RightInserted(r) ==
                 IF r.panic THEN r
                 ELSE IF ~Occupied(r.b, r.ret) THEN Panicked(r.b)
                 ELSE Done([r.b EXCEPT ![root][1].avl_node.right_child = r.ret,
                                       ![r.ret][1].avl_node.parent = root],
                           root)
         IN  IF limit_price < root_price
             THEN LeftInserted(insert_into_tree(limits,
                                   limits[root][1].avl_node.left_child, limit_idx))
             ELSE IF limit_price > root_price
             THEN RightInserted(insert_into_tree(limits,
                                    limits[root][1].avl_node.right_child, limit_idx))
             ELSE Done(limits, root)

\* OrderBook::remove_from_tree (on the limits arena)
RECURSIVE remove_from_tree(_, _, _)
remove_from_tree(limits, root, limit_idx) ==
    IF root = NONE THEN Done(limits, NONE)
    ELSE IF root = limit_idx
    THEN IF ~Occupied(limits, root) THEN Panicked(limits)
         ELSE LET node == limits[root][1].avl_node
                  left == node.left_child
                  right == node.right_child
                  \* what follows the recursive call r, which returned new_right
                  SuccessorRemoved(r) ==
                      IF r.panic THEN r
                      ELSE Done([r.b EXCEPT ![root][1].avl_node.right_child = r.ret],
                                root)
                  \* what follows find_min_in_subtree, which returned s
                  SuccessorFound(s) ==
                      IF s.panic THEN Panicked(limits)
                      ELSE SuccessorRemoved(
                               remove_from_tree(
                                   [limits EXCEPT ![root][1].price = limits[s.ret][1].price],
                                   right, s.ret))
              IN  IF left = NONE /\ right = NONE THEN Done(limits, NONE)
                  ELSE IF right = NONE
                  THEN IF ~Occupied(limits, left) THEN Panicked(limits)
                       ELSE Done([limits EXCEPT ![left][1].avl_node.parent = node.parent],
                                 left)
                  ELSE IF left = NONE
                  THEN IF ~Occupied(limits, right) THEN Panicked(limits)
                       ELSE Done([limits EXCEPT ![right][1].avl_node.parent = node.parent],
                                 right)
                  ELSE SuccessorFound(find_min_in_subtree(limits, right))
    ELSE IF ~Occupied(limits, limit_idx) \/ ~Occupied(limits, root)
    THEN Panicked(limits)
    ELSE LET limit_price == limits[limit_idx][1].price
             root_price == limits[root][1].price
             \* what follows the recursive call r, which returned new_left
             LeftRemoved(r) ==
                 IF r.panic THEN r
                 ELSE Done([r.b EXCEPT ![root][1].avl_node.left_child = r.ret], root)
             \* what follows the recursive call r, which returned new_right
             RightRemoved(r) ==
                 IF r.panic THEN r
                 ELSE Done([r.b EXCEPT ![root][1].avl_node.right_child = r.ret], root)
         IN  IF limit_price < root_price
             THEN LeftRemoved(remove_from_tree(limits,
                                  limits[root][1].avl_node.left_child, limit_idx))
             ELSE RightRemoved(remove_from_tree(limits,
                                   limits[root][1].avl_node.right_child, limit_idx))

\* update_best_prices without the dispatch on side: either cache takes the
\* level when it is unset or the level's price beats it
update_best_prices_either_side(self, limit_idx, side) ==
    IF ~Occupied(self.limits, limit_idx) THEN Panicked(self)
    ELSE LET price == self.limits[limit_idx][1].price
             b1 == IF \/ self.best_bid_index = NONE
                      \/ /\ Occupied(self.limits, self.best_bid_index)
                         /\ price > self.limits[self.best_bid_index][1].price
                   THEN [self EXCEPT !.best_bid_index = limit_idx]
                   ELSE self
             b2 == IF \/ b1.best_ask_index = NONE
                      \/ /\ Occupied(b1.limits, b1.best_ask_index)
                         /\ price < b1.limits[b1.best_ask_index][1].price
                   THEN [b1 EXCEPT !.best_ask_index = limit_idx]
                   ELSE b1
         IN  Done(b2, NONE)

\* OrderBook::update_best_prices
update_best_prices(self, limit_idx, side) ==
    IF ~Occupied(self.limits, limit_idx) THEN Panicked(self)
    ELSE LET price == self.limits[limit_idx][1].price
         IN  IF side = "Buy"
             THEN IF self.best_bid_index = NONE
                  THEN Done([self EXCEPT !.best_bid_index = limit_idx], NONE)
                  ELSE IF ~Occupied(self.limits, self.best_bid_index)
                  THEN Panicked(self)
                  ELSE IF price > self.limits[self.best_bid_index][1].price
                  THEN Done([self EXCEPT !.best_bid_index = limit_idx], NONE)
                  ELSE Done(self, NONE)
             ELSE IF self.best_ask_index = NONE
                  THEN Done([self EXCEPT !.best_ask_index = limit_idx], NONE)
                  ELSE IF ~Occupied(self.limits, self.best_ask_index)
                  THEN Panicked(self)
                  ELSE IF price < self.limits[self.best_ask_index][1].price
                  THEN Done([self EXCEPT !.best_ask_index = limit_idx], NONE)
                  ELSE Done(self, NONE)

\* OrderBook::get_or_create_limit
get_or_create_limit(self, price, side) ==
    IF price \in DOMAIN self.price_to_limit_index
    THEN Done(self, self.price_to_limit_index[price])
    ELSE LET \* the tree root is set from what insert_into_tree returned (t)
             Inserted(b1, t, limit_idx) ==
                 IF t.panic THEN Panicked(b1)
                 ELSE IF side = "Buy"
                 THEN Done([b1 EXCEPT !.limits = t.b, !.buy_tree_root = t.ret], limit_idx)
                 ELSE Done([b1 EXCEPT !.limits = t.b, !.sell_tree_root = t.ret], limit_idx)
             \* the level is in its slot and in the price map (b1)
             Created(b1, limit_idx) ==
                 Inserted(b1,
                          insert_into_tree(b1.limits,
                              IF side = "Buy" THEN b1.buy_tree_root ELSE b1.sell_tree_root,
                              limit_idx),
                          limit_idx)
             \* allocate_limit_index returned a
             Allocated(a) ==
                 Created([a.b EXCEPT !.limits[a.ret] = <<Limit_new(price, side)>>,
                                     !.price_to_limit_index = MapInsert(@, price, a.ret)],
                         a.ret)
         IN  Allocated(allocate_limit_index(self))

\* OrderBook::add_order_to_limit
add_order_to_limit(self, order_idx, limit_idx, quantity) ==
    IF ~Occupied(self.limits, limit_idx) \/ ~Occupied(self.orders, order_idx)
    THEN Panicked(self)
    ELSE LET tail_idx == self.limits[limit_idx][1].tail_order_index
             \* the order is linked (b2): update the level's statistics
             Linked(b2) ==
                 IF debug_assertions
                    /\ add_order_stats_overflows(b2.limits[limit_idx][1], quantity)
                 THEN Panicked(b2)
                 ELSE Done([b2 EXCEPT !.limits[limit_idx][1] =
                                          add_order_stats(@, quantity)], NONE)
             \* the order's parent is set (b1): append it at the tail
             Parented(b1) ==
                 IF tail_idx # NONE /\ ~Occupied(b1.orders, tail_idx) THEN Panicked(b1)
                 ELSE Linked(IF tail_idx # NONE
                             THEN [[b1 EXCEPT !.orders[tail_idx][1].next_order_index = order_idx]
                                       EXCEPT !.orders[order_idx][1].prev_order_index = tail_idx,
                                              !.limits[limit_idx][1].tail_order_index = order_idx]
                             ELSE [b1 EXCEPT !.limits[limit_idx][1].head_order_index = order_idx,
                                             !.limits[limit_idx][1].tail_order_index = order_idx])
         IN  Parented([self EXCEPT !.orders[order_idx][1].parent_limit_index = limit_idx])

\* OrderBook::add_order_to_book
add_order_to_book(self, order) ==
    LET \* add_order_to_limit returned l
        Queued(l, limit_idx) ==
            IF l.panic THEN l
            ELSE update_best_prices(l.b, limit_idx, order.side)
        \* get_or_create_limit returned g
        Levelled(g, order_idx) ==
            IF g.panic THEN g
            ELSE Queued(add_order_to_limit(g.b, order_idx, g.ret,
                                           order.remaining_quantity),
                        g.ret)
        \* allocate_order_index returned a
        Allocated(a) ==
            Levelled(get_or_create_limit(
                         [a.b EXCEPT !.orders[a.ret] = <<order>>,
                                     !.order_id_to_index = MapInsert(@, order.id, a.ret)],
                         order.price, order.side),
                     a.ret)
    IN  Allocated(allocate_order_index(self))

\* OrderBook::remove_empty_limit
remove_empty_limit(self, limit_idx) ==
    IF ~Occupied(self.limits, limit_idx) THEN Panicked(self)
    ELSE LET price == self.limits[limit_idx][1].price
             side == self.limits[limit_idx][1].side
             \* the best prices are up to date (b4): free the slot
             BestChecked(b4) == Done(free_limit_index(b4, limit_idx), NONE)
             \* the best bid is up to date (b3): update the best ask
             BidChecked(b3) ==
                 BestChecked(IF limit_idx = b3.best_ask_index
                             THEN [b3 EXCEPT !.best_ask_index = find_new_best_ask(b3)]
                             ELSE b3)
             \* the level is out of its tree (b2): update the best bid
             Unlinked(b2) ==
                 BidChecked(IF limit_idx = b2.best_bid_index
                            THEN [b2 EXCEPT !.best_bid_index = find_new_best_bid(b2)]
                            ELSE b2)
             \* the price is out of the map (b1) and remove_from_tree returned t
             Unmapped(b1, t) ==
                 IF t.panic THEN Panicked(b1)
                 ELSE Unlinked(IF side = "Buy"
                               THEN [b1 EXCEPT !.limits = t.b, !.buy_tree_root = t.ret]
                               ELSE [b1 EXCEPT !.limits = t.b, !.sell_tree_root = t.ret])
         IN  Unmapped([self EXCEPT !.price_to_limit_index = MapRemove(@, price)],
                      remove_from_tree(self.limits,
                          IF side = "Buy" THEN self.buy_tree_root ELSE self.sell_tree_root,
                          limit_idx))

\* OrderBook::remove_order_from_limit
remove_order_from_limit(self, order_idx, limit_idx) ==
    IF ~Occupied(self.orders, order_idx) THEN Panicked(self)
    ELSE LET order == self.orders[order_idx][1]
             prev_idx == order.prev_order_index
             next_idx == order.next_order_index
             order_id == order.id
             quantity == order.remaining_quantity
             \* the order is out of the book (b4): drop the level if it is empty
             Freed(b4) ==
                 IF ~Occupied(b4.limits, limit_idx) THEN Panicked(b4)
                 ELSE IF is_empty(b4.limits[limit_idx][1])
                 THEN remove_empty_limit(b4, limit_idx)
                 ELSE Done(b4, NONE)
             \* the order is unlinked (b2): statistics, id map, slot
             Unlinked(b2) ==
                 IF ~Occupied(b2.limits, limit_idx) THEN Panicked(b2)
                 ELSE IF debug_assertions
                         /\ remove_order_stats_overflows(b2.limits[limit_idx][1], quantity)
                 THEN Panicked(b2)
                 ELSE Freed(free_order_index(
                                [b2 EXCEPT !.limits[limit_idx][1] =
                                               remove_order_stats(@, quantity),
                                           !.order_id_to_index = MapRemove(@, order_id)],
                                order_idx))
             \* the predecessor's link is set (b1): set the successor's
             PrevLinked(b1) ==
                 IF \/ (next_idx # NONE /\ ~Occupied(b1.orders, next_idx))
                    \/ (next_idx = NONE /\ ~Occupied(b1.limits, limit_idx))
                 THEN Panicked(b1)
                 ELSE Unlinked(IF next_idx # NONE
                               THEN [b1 EXCEPT
                                       !.orders[next_idx][1].prev_order_index = prev_idx]
                               ELSE [b1 EXCEPT
                                       !.limits[limit_idx][1].tail_order_index = prev_idx])
         IN  IF \/ (prev_idx # NONE /\ ~Occupied(self.orders, prev_idx))
                \/ (prev_idx = NONE /\ ~Occupied(self.limits, limit_idx))
             THEN Panicked(self)
             ELSE PrevLinked(IF prev_idx # NONE
                             THEN [self EXCEPT
                                     !.orders[prev_idx][1].next_order_index = next_idx]
                             ELSE [self EXCEPT
                                     !.limits[limit_idx][1].head_order_index = next_idx])

\* What a public operation returns: Ok, or the OrderBookError variant with its
\* payload, or a panic; `order` is the Order a successful remove_order returns.
Ok == [kind |-> "Ok", val |-> 0]
Err(kind, val) == [kind |-> kind, val |-> val]
Ret(b, res, order) == [b |-> b, res |-> res, order |-> order]
PanicRet(b) == [b |-> b, res |-> [kind |-> "Panic", val |-> 0], order |-> <<>>]

\* add_order without the check for a live id
add_order_without_duplicate_check(self, order) ==
    IF order.price = 0 THEN Ret(self, Err("InvalidPrice", order.price), <<>>)
    ELSE IF order.quantity = 0
    THEN Ret(self, Err("InvalidQuantity", order.quantity), <<>>)
    ELSE LET Added(r) == IF r.panic THEN PanicRet(self) ELSE Ret(r.b, Ok, <<>>)
         IN  Added(add_order_to_book(self,
                       [order EXCEPT !.event_time = self.current_time]))

\* add_order taking the order's slot before it validates the order
add_order_allocating_first(self, order) ==
    IF order.price = 0
    THEN Ret(allocate_order_index(self).b, Err("InvalidPrice", order.price), <<>>)
    ELSE IF order.quantity = 0
    THEN Ret(allocate_order_index(self).b,
             Err("InvalidQuantity", order.quantity), <<>>)
    ELSE IF contains_order(self, order.id)
    THEN Ret(allocate_order_index(self).b,
             Err("OrderAlreadyExists", order.id), <<>>)
    ELSE LET Added(r) == IF r.panic THEN PanicRet(self) ELSE Ret(r.b, Ok, <<>>)
         IN  Added(add_order_to_book(self,
                       [order EXCEPT !.event_time = self.current_time]))

\* OrderBook::add_order
add_order(self, order) ==
    IF order.price = 0 THEN Ret(self, Err("InvalidPrice", order.price), <<>>)
    ELSE IF order.quantity = 0
    THEN Ret(self, Err("InvalidQuantity", order.quantity), <<>>)
    ELSE IF contains_order(self, order.id)
    THEN Ret(self, Err("OrderAlreadyExists", order.id), <<>>)
    ELSE LET \* add_order_to_book returned r
             Added(r) == IF r.panic THEN PanicRet(self) ELSE Ret(r.b, Ok, <<>>)
         IN  Added(add_order_to_book(self,
                       [order EXCEPT !.event_time = self.current_time]))

\* OrderBook::remove_order
remove_order(self, order_id) ==
    IF order_id \notin DOMAIN self.order_id_to_index
    THEN Ret(self, Err("OrderNotFound", order_id), <<>>)
    ELSE LET order_idx == self.order_id_to_index[order_id]
         IN  IF ~Occupied(self.orders, order_idx) THEN PanicRet(self)
             ELSE IF self.orders[order_idx][1].parent_limit_index = NONE
             THEN PanicRet(self)
             ELSE LET limit_idx == self.orders[order_idx][1].parent_limit_index
                      cancelled_order == cancel(self.orders[order_idx][1],
                                                self.current_time)
                      \* remove_order_from_limit returned r
                      Removed(r) ==
                          IF r.panic THEN PanicRet(self)
                          ELSE Ret(r.b, Ok, <<cancelled_order>>)
                  IN  Removed(remove_order_from_limit(
                                  [self EXCEPT !.orders[order_idx][1] =
                                                   cancel(@, self.current_time)],
                                  order_idx, limit_idx))

\* update_order storing a fresh Order of the new quantity in the slot
update_order_replacing(self, order_id, new_quantity) ==
    IF new_quantity = 0 THEN Ret(self, Err("InvalidQuantity", new_quantity), <<>>)
    ELSE IF order_id \notin DOMAIN self.order_id_to_index
    THEN Ret(self, Err("OrderNotFound", order_id), <<>>)
    ELSE IF ~Occupied(self.orders, self.order_id_to_index[order_id])
    THEN PanicRet(self)
    ELSE Ret([self EXCEPT !.orders[self.order_id_to_index[order_id]][1] =
                              Order_new(@.id, @.side, new_quantity, @.price,
                                        @.entry_time, @.exchange_id)],
             Ok, <<>>)

\* OrderBook::update_order
update_order(self, order_id, new_quantity) ==
    IF new_quantity = 0 THEN Ret(self, Err("InvalidQuantity", new_quantity), <<>>)
    ELSE IF order_id \notin DOMAIN self.order_id_to_index
    THEN Ret(self, Err("OrderNotFound", order_id), <<>>)
    ELSE LET order_idx == self.order_id_to_index[order_id]
         IN  IF ~Occupied(self.orders, order_idx) THEN PanicRet(self)
             ELSE IF self.orders[order_idx][1].parent_limit_index = NONE
             THEN PanicRet(self)
             ELSE LET order == self.orders[order_idx][1]
                      limit_idx == order.parent_limit_index
                      old_quantity == order.remaining_quantity
                      \* order.update_quantity returned true and left new_order
                      Updated(new_order) ==
                          IF ~Occupied(self.limits, limit_idx) THEN PanicRet(self)
                          ELSE IF debug_assertions
                                  /\ update_order_stats_overflows(
                                         self.limits[limit_idx][1],
                                         old_quantity, new_order.remaining_quantity)
                          THEN PanicRet(self)
                          ELSE Ret([self EXCEPT
                                      !.orders[order_idx][1] = new_order,
                                      !.limits[limit_idx][1] =
                                          update_order_stats(@, old_quantity,
                                              new_order.remaining_quantity)],
                                   Ok, <<>>)
                  IN  IF ~update_quantity_ok(order, new_quantity)
                      THEN Ret(self, Err("InvalidQuantity", new_quantity), <<>>)
                      ELSE Updated(update_quantity(order, new_quantity,
                                                   self.current_time))

\* process_order dispatching on the id alone: a live id is always an update
process_order_without_cancel(self, order) ==
    IF contains_order(self, order.id)
    THEN update_order(self, order.id, order.quantity)
    ELSE add_order(self, order)

\* process_order never updating: a positive quantity is always an add
process_order_always_adding(self, order) ==
    IF order.quantity = 0
    THEN [remove_order(self, order.id) EXCEPT !.order = <<>>]
    ELSE add_order(self, order)

\* process_order cancelling only when the id is live
process_order_cancelling_live_only(self, order) ==
    IF order.quantity = 0 /\ contains_order(self, order.id)
    THEN [remove_order(self, order.id) EXCEPT !.order = <<>>]
    ELSE IF contains_order(self, order.id)
    THEN update_order(self, order.id, order.quantity)
    ELSE add_order(self, order)

\* OrderBook::process_order
process_order(self, order) ==
    IF order.quantity = 0
    THEN LET \* remove_order returned r: the Order is dropped
             Removed(r) == Ret(r.b, r.res, <<>>)
         IN  Removed(remove_order(self, order.id))
    ELSE IF contains_order(self, order.id)
    THEN update_order(self, order.id, order.quantity)
    ELSE add_order(self, order)

\* ------------------------------------------------------------------ types.rs

\* Trade::new
Trade_new(aggressor_id, passive_id, price, quantity, timestamp, side) ==
    [aggressor_order_id |-> aggressor_id, passive_order_id |-> passive_id,
     price |-> price, quantity |-> quantity, timestamp |-> timestamp,
     aggressor_side |-> side]

\* ------------------------------------------------------------------ matching_engine.rs

\* `const MAX_ITERATIONS: usize = 10000`, scaled down: the loops below leave
\* the book and order.quantity alone, so an iteration that does not break is
\* followed by one that does not break either, whatever the limit
MAX_ITERATIONS == 3

\* `let passive_order_id = 999999; // Placeholder`
passive_order_id == 999999

\* MatchingEngine::execute_at_price: the incoming order afterwards and the
\* Option<Trade> returned (it returns no Err and leaves the book alone)
execute_at_price(b, incoming_order, price) ==
    LET Executed(available_quantity) ==
            IF available_quantity = 0
            THEN [order |-> incoming_order, trade |-> <<>>]
            ELSE [order |-> fill(incoming_order,
                                 Min(incoming_order.quantity, available_quantity),
                                 b.current_time),
                  trade |-> <<Trade_new(incoming_order.id, passive_order_id, price,
                                        Min(incoming_order.quantity, available_quantity),
                                        b.current_time, incoming_order.side)>>]
    IN  Executed(IF volume_at_price(b, price) = <<>> THEN 0
                 ELSE volume_at_price(b, price)[1])

\* What match_buy_order / match_sell_order return: the Result, the local
\* trades vector when the function returned, and the order matched
Matched(res, trades, order) == [res |-> res, trades |-> trades, order |-> order]

\* MatchingEngine::match_buy_order, entered with the loop's local state
RECURSIVE match_buy_order(_, _, _, _)
match_buy_order(b, order, trades, iterations) ==
    IF ~(order.quantity > 0) THEN Matched(Ok, trades, order)
    ELSE IF iterations + 1 > MAX_ITERATIONS
    THEN Matched(Err("TreeError", 0), trades, order)
    ELSE IF best_ask(b) = <<>> THEN Matched(Ok, trades, order)
    ELSE IF order.price < best_ask(b)[1] THEN Matched(Ok, trades, order)
    ELSE LET Executed(e) ==
                 IF e.trade = <<>> THEN Matched(Ok, trades, order)
                 ELSE match_buy_order(b, e.order, trades \o e.trade, iterations + 1)
         IN  Executed(execute_at_price(b, order, best_ask(b)[1]))

\* MatchingEngine::match_sell_order, entered with the loop's local state
RECURSIVE match_sell_order(_, _, _, _)
match_sell_order(b, order, trades, iterations) ==
    IF ~(order.quantity > 0) THEN Matched(Ok, trades, order)
    ELSE IF iterations + 1 > MAX_ITERATIONS
    THEN Matched(Err("TreeError", 0), trades, order)
    ELSE IF best_bid(b) = <<>> THEN Matched(Ok, trades, order)
    ELSE IF order.price > best_bid(b)[1] THEN Matched(Ok, trades, order)
    ELSE LET Executed(e) ==
                 IF e.trade = <<>> THEN Matched(Ok, trades, order)
                 ELSE match_sell_order(b, e.order, trades \o e.trade, iterations + 1)
         IN  Executed(execute_at_price(b, order, best_bid(b)[1]))

\* What MatchingEngine::process_order leaves: the book, the Result, the
\* Vec<Trade> of an Ok, and the trades pushed while matching
Processed(b, res, trades, pushed) ==
    [b |-> b, res |-> res, order |-> <<>>, trades |-> trades, pushed |-> pushed]

\* MatchingEngine::process_order
MatchingEngine_process_order(b, order) ==
    LET \* book.add_order(order)? returned r
        Added(r, trades) ==
            IF r.res = Ok THEN Processed(r.b, Ok, trades, trades)
            ELSE Processed(r.b, r.res, <<>>, trades)
        \* match_buy_order / match_sell_order returned m
        Tried(m) ==
            IF m.res # Ok THEN Processed(b, m.res, <<>>, m.trades)
            ELSE IF m.order.quantity > 0 THEN Added(add_order(b, m.order), m.trades)
            ELSE Processed(b, Ok, m.trades, m.trades)
    IN  Tried(IF order.side = "Buy" THEN match_buy_order(b, order, <<>>, 0)
              ELSE match_sell_order(b, order, <<>>, 0))

\* ------------------------------------------------------------------ the caller

\* The exchange tag every caller in the repository passes (main.rs, tests.rs)
ExchangeId == 1

\* The entry_time the caller passes to Order::new
EntryTime == 0

Init ==
    /\ book = OrderBook_new
    /\ held = <<>>
    /\ panicked = FALSE
    /\ calls = 0
    /\ debug_assertions \in BOOLEAN

\* The effect of a call that returned r (or panicked): a panic leaves no book
\* to observe, the model keeps the one before the call.
Returns(r) ==
    /\ calls < MaxCalls
    /\ book' = r.b
    /\ calls' = IF r.b # book \/ r.res.kind = "Panic" THEN calls + 1 ELSE calls
    /\ panicked' = (r.res.kind = "Panic")
    /\ UNCHANGED debug_assertions

\* book.set_time(timestamp): the caller's clock only moves forward
SetTime ==
    /\ ~panicked
    /\ \E timestamp \in Times :
         /\ timestamp > book.current_time
         /\ Returns([b |-> set_time(book, timestamp), res |-> Ok, order |-> <<>>])
    /\ held' = <<>>

\* book.add_order(Order::new(id, side, quantity, price, entry_time, 1))
AddOrder ==
    /\ ~panicked
    /\ \E id \in Ids, side \in Sides, quantity \in Quantities, price \in Prices :
         /\ \A j \in Ids : (j < id) => contains_order(book, j)
         /\ Returns(add_order(book, Order_new(id, side, quantity, price,
                                           EntryTime, ExchangeId)))
    /\ held' = <<>>

\* book.add_order(o) with the Order o that the remove_order just before returned
ReAddOrder ==
    /\ ~panicked
    /\ held # <<>>
    /\ Returns(add_order(book, held[1]))
    /\ held' = <<>>

\* let o = book.remove_order(id): the caller keeps o until its next call
RemoveOrder ==
    /\ ~panicked
    /\ \E id \in Ids :
         LET Kept(r) == Returns(r) /\ held' = r.order
         IN  Kept(remove_order(book, id))

\* book.update_order(id, new_quantity)
UpdateOrder ==
    /\ ~panicked
    /\ \E id \in Ids, new_quantity \in Quantities :
         Returns(update_order(book, id, new_quantity))
    /\ held' = <<>>

\* let mut o = Order::new(id, side, quantity, price, entry_time, 1);
\* o.fill(filled, entry_time); book.add_order(o)
AddFilledOrder ==
    /\ ~panicked
    /\ \E id \in Ids, side \in Sides, quantity \in Quantities \ {0},
          price \in Prices \ {0}, filled \in Quantities \ {0} :
         /\ \A j \in Ids : (j < id) => contains_order(book, j)
         /\ Cardinality({j \in DOMAIN book.order_id_to_index :
                            /\ get_order(book, j) # <<>>
                            /\ filled_quantity(get_order(book, j)[1]) > 0})
              < MaxFilledOrders
         /\ Returns(add_order(book, fill(Order_new(id, side, quantity, price,
                                                   EntryTime, ExchangeId),
                                         filled, EntryTime)))
    /\ held' = <<>>

\* engine.process_order(&mut book, Order::new(id, side, quantity, price,
\* entry_time, 1))
MatchOrder ==
    /\ ~panicked
    /\ \E id \in Ids, side \in Sides, quantity \in Quantities, price \in Prices :
         /\ \A j \in Ids : (j < id) => contains_order(book, j)
         /\ Returns(MatchingEngine_process_order(book,
                        Order_new(id, side, quantity, price, EntryTime, ExchangeId)))
    /\ held' = <<>>

\* book.process_order(Order::new(id, side, quantity, price, entry_time, 1))
ProcessOrder ==
    /\ ~panicked
    /\ \E id \in Ids, side \in Sides, quantity \in Quantities, price \in Prices :
         /\ \A j \in Ids : (j < id) => contains_order(book, j)
         /\ Returns(process_order(book, Order_new(id, side, quantity, price,
                                               EntryTime, ExchangeId)))
    /\ held' = <<>>

Next ==
    \/ SetTime
    \/ AddOrder
    \/ ReAddOrder
    \/ RemoveOrder
    \/ UpdateOrder
    \/ ProcessOrder
    \/ MatchOrder

Spec == Init /\ [][Next]_vars

\* The callers that fill an Order before they add it
NextFilled ==
    \/ AddOrder
    \/ AddFilledOrder
    \/ RemoveOrder
    \/ UpdateOrder

SpecFilled == Init /\ [][NextFilled]_vars

\* The outcome of an AvlTree method called on the book
OfTree(t) ==
    IF t.panic THEN PanicRet(book) ELSE Ret([book EXCEPT !.limits = t.b], Ok, <<>>)

\* The effect of an AvlTree method that returned r (or panicked); the caller
\* makes up to MaxTreeCalls of these calls on top of the others
TreeReturns(r) ==
    /\ calls < MaxCalls + MaxTreeCalls
    /\ book' = r.b
    /\ calls' = IF r.b # book \/ r.res.kind = "Panic" THEN calls + 1 ELSE calls
    /\ panicked' = (r.res.kind = "Panic")
    /\ UNCHANGED debug_assertions

\* The slot indices a caller passes to the AvlTree methods
Slots == 1..MaxId

\* book.update_height(index)
UpdateHeight ==
    /\ ~panicked
    /\ \E index \in Slots : TreeReturns(OfTree(update_height(book.limits, index)))
    /\ held' = <<>>

\* book.rotate_left(x_index)
RotateLeft ==
    /\ ~panicked
    /\ \E x_index \in Slots : TreeReturns(OfTree(rotate_left(book.limits, x_index)))
    /\ held' = <<>>

\* book.rotate_right(y_index)
RotateRight ==
    /\ ~panicked
    /\ \E y_index \in Slots : TreeReturns(OfTree(rotate_right(book.limits, y_index)))
    /\ held' = <<>>

\* book.balance(index)
Balance ==
    /\ ~panicked
    /\ \E index \in Slots : TreeReturns(OfTree(balance(book.limits, index)))
    /\ held' = <<>>

\* The callers that use the book's AvlTree methods on the levels they added
NextAvl ==
    \/ AddOrder
    \/ UpdateHeight
    \/ RotateLeft
    \/ RotateRight
    \/ Balance

SpecAvl == Init /\ [][NextAvl]_vars

\* The callers that work on an Order value of their own, outside any book:
\* held is that value

\* let mut o = Order::new(id, side, quantity, price, entry_time, 1)
OrderNew ==
    /\ \E id \in Ids, side \in Sides, quantity \in Quantities, price \in Prices :
         held' = <<Order_new(id, side, quantity, price, EntryTime, ExchangeId)>>
    /\ UNCHANGED <<book, panicked, calls, debug_assertions>>

\* o.fill(quantity, event_time)
OrderFill ==
    /\ held # <<>>
    /\ \E quantity \in Quantities, event_time \in Times :
         held' = <<fill(held[1], quantity, event_time)>>
    /\ UNCHANGED <<book, panicked, calls, debug_assertions>>

\* o.update_quantity(new_quantity, event_time)
OrderUpdateQuantity ==
    /\ held # <<>>
    /\ \E new_quantity \in Quantities, event_time \in Times :
         held' = <<update_quantity(held[1], new_quantity, event_time)>>
    /\ UNCHANGED <<book, panicked, calls, debug_assertions>>

\* o.cancel(event_time)
OrderCancel ==
    /\ held # <<>>
    /\ \E event_time \in Times : held' = <<cancel(held[1], event_time)>>
    /\ UNCHANGED <<book, panicked, calls, debug_assertions>>

NextOrder ==
    \/ OrderNew
    \/ OrderFill
    \/ OrderUpdateQuantity
    \/ OrderCancel

SpecOrder == Init /\ [][NextOrder]_vars

\* ------------------------------------------------------------------ properties

\* The ids the book holds, and the orders stored under them
LiveIds(b) == DOMAIN b.order_id_to_index
LiveOrders(b) == {get_order(b, id)[1] : id \in {i \in LiveIds(b) : get_order(b, i) # <<>>}}
LivePrices(b, side) == {o.price : o \in {x \in LiveOrders(b) : x.side = side}}

\* The orders a caller can pass: a fresh Order::new, or the Order value the
\* remove_order just before handed back
FreshOrders ==
    {Order_new(id, side, quantity, price, EntryTime, ExchangeId) :
        id \in Ids, side \in Sides, quantity \in Quantities, price \in Prices}
CallerOrders == FreshOrders \cup (IF held # <<>> THEN {held[1]} ELSE {})

\* The slots met walking next-links (prev-links) from a slot, for at most
\* fuel steps: a walk longer than the arena has gone round a cycle
RECURSIVE WalkNext(_, _, _)
WalkNext(orders, idx, fuel) ==
    IF idx = NONE \/ fuel = 0 \/ ~Occupied(orders, idx) THEN <<>>
    ELSE <<idx>> \o WalkNext(orders, orders[idx][1].next_order_index, fuel - 1)

RECURSIVE WalkPrev(_, _, _)
WalkPrev(orders, idx, fuel) ==
    IF idx = NONE \/ fuel = 0 \/ ~Occupied(orders, idx) THEN <<>>
    ELSE <<idx>> \o WalkPrev(orders, orders[idx][1].prev_order_index, fuel - 1)

Fuel(b) == Len(b.orders) + 1

\* The queue of the level in slot l, head first, as order slots and as ids
QueueOf(b, l) == WalkNext(b.orders, b.limits[l][1].head_order_index, Fuel(b))
QueueBackOf(b, l) == WalkPrev(b.orders, b.limits[l][1].tail_order_index, Fuel(b))
QueueIds(b, l) == [i \in 1..Len(QueueOf(b, l)) |-> b.orders[QueueOf(b, l)[i]][1].id]

\* The queue at a price, as ids: empty when the price has no level
QueueAt(b, price) ==
    IF price \in DOMAIN b.price_to_limit_index
       /\ Occupied(b.limits, b.price_to_limit_index[price])
    THEN QueueIds(b, b.price_to_limit_index[price])
    ELSE <<>>

RECURSIVE SumRemaining(_, _)
SumRemaining(orders, q) ==
    IF q = <<>> THEN 0
    ELSE orders[q[1]][1].remaining_quantity + SumRemaining(orders, Tail(q))

\* How often x occurs in the sequence q
Occurrences(q, x) == Cardinality({i \in 1..Len(q) : q[i] = x})

\* The occupied level slots
Levels(b) == {l \in 1..Len(b.limits) : b.limits[l] # <<>>}

\* C1: best_bid() is None exactly when no live buy order exists and otherwise
\* reports the highest price among the live buy orders; best_ask() is None
\* exactly when no live sell order exists and otherwise reports the lowest
\* price among the live sell orders.
C1_BestPricesAreTheExtremes ==
    /\ (best_bid(book) = <<>>) <=> (LivePrices(book, "Buy") = {})
    /\ best_bid(book) # <<>> =>
           /\ best_bid(book)[1] \in LivePrices(book, "Buy")
           /\ \A p \in LivePrices(book, "Buy") : p <= best_bid(book)[1]
    /\ (best_ask(book) = <<>>) <=> (LivePrices(book, "Sell") = {})
    /\ best_ask(book) # <<>> =>
           /\ best_ask(book)[1] \in LivePrices(book, "Sell")
           /\ \A p \in LivePrices(book, "Sell") : p >= best_ask(book)[1]

\* C2: for every price level of the book, size is the sum of the remaining
\* quantities of the orders in its queue, order_count is the length of the
\* queue, total_volume is price * size, and the walk over next-links from the
\* head is the reverse of the walk over prev-links from the tail, ending at
\* the tail.
C2_LevelAggregatesMatchTheQueue ==
    \A p \in DOMAIN book.price_to_limit_index :
        LET l == book.price_to_limit_index[p]
        IN  /\ Occupied(book.limits, l)
            /\ LET L == book.limits[l][1]
                   q == QueueOf(book, l)
               IN  /\ L.size = SumRemaining(book.orders, q)
                   /\ volume_at_price(book, p) = <<SumRemaining(book.orders, q)>>
                   /\ L.order_count = Len(q)
                   /\ orders_at_price(book, p) = <<Len(q)>>
                   /\ L.total_volume = L.price * L.size
                   /\ q = Reverse(QueueBackOf(book, l))
                   /\ q # <<>>
                   /\ q[1] = L.head_order_index
                   /\ q[Len(q)] = L.tail_order_index

\* C3: price levels exist exactly while they hold orders: volume_at_price(p)
\* is Some iff a live order has price p; total_levels() is the number of
\* distinct prices of live orders; an add_order that returns Ok at a price
\* that already has a level creates no level; and a remove_order that returns
\* Ok for the last order at its price leaves volume_at_price(p) None.
C3_LevelsExistWhileTheyHoldOrders ==
    /\ \A p \in Prices :
           (volume_at_price(book, p) # <<>>) <=> (\E o \in LiveOrders(book) : o.price = p)
    /\ total_levels(book) = Cardinality({o.price : o \in LiveOrders(book)})
    /\ \A o \in CallerOrders :
           LET r == add_order(book, o)
           IN  (r.res = Ok /\ volume_at_price(book, o.price) # <<>>) =>
                   /\ total_levels(r.b) = total_levels(book)
                   /\ Levels(r.b) = Levels(book)
                   /\ orders_at_price(r.b, o.price) = <<orders_at_price(book, o.price)[1] + 1>>
    /\ \A id \in LiveIds(book) :
           LET r == remove_order(book, id)
               p == get_order(book, id)[1].price
           IN  (r.res = Ok /\ orders_at_price(book, p) = <<1>>) =>
                   /\ volume_at_price(r.b, p) = <<>>
                   /\ orders_at_price(r.b, p) = <<>>
                   /\ total_levels(r.b) = total_levels(book) - 1

\* C3 is exercised: after a level has been removed, the book has two levels,
\* one holding one order whose removal returns Ok and takes the level away,
\* and an add_order at the price of the other is accepted.
C3_Witness ==
    /\ ~panicked
    /\ total_levels(book) = 2
    /\ book.free_limit_indices # <<>>
    /\ \E o \in FreshOrders :
           /\ volume_at_price(book, o.price) # <<>>
           /\ add_order(book, o).res = Ok
           /\ orders_at_price(add_order(book, o).b, o.price) = <<2>>
    /\ \E id \in LiveIds(book) :
           /\ orders_at_price(book, get_order(book, id)[1].price) = <<1>>
           /\ remove_order(book, id).res = Ok
           /\ total_levels(remove_order(book, id).b) = 1

\* C4: every id in order_id_to_index maps to an occupied order slot holding
\* an order with that id; the order's parent_limit_index names an occupied
\* level slot whose price is the order's price and which price_to_limit_index
\* maps back to; and the order occurs exactly once in that level's queue and
\* in no other level's queue.
C4_MapSlotCoherence ==
    \A id \in LiveIds(book) :
        LET idx == book.order_id_to_index[id]
        IN  /\ Occupied(book.orders, idx)
            /\ book.orders[idx][1].id = id
            /\ LET o == book.orders[idx][1]
                   l == o.parent_limit_index
               IN  /\ l # NONE
                   /\ Occupied(book.limits, l)
                   /\ book.limits[l][1].price = o.price
                   /\ o.price \in DOMAIN book.price_to_limit_index
                   /\ book.price_to_limit_index[o.price] = l
                   /\ Occurrences(QueueOf(book, l), idx) = 1
                   /\ \A m \in Levels(book) \ {l} :
                          Occurrences(QueueOf(book, m), idx) = 0

\* The book is not crossed: the best bid is strictly below the best ask when
\* both are present
Uncrossed(b) ==
    (best_bid(b) # <<>> /\ best_ask(b) # <<>>) => best_bid(b)[1] < best_ask(b)[1]

\* The order would trade against the book: a buy at or above the best ask, a
\* sell at or below the best bid
Marketable(b, o) ==
    IF o.side = "Buy"
    THEN best_ask(b) # <<>> /\ o.price >= best_ask(b)[1]
    ELSE best_bid(b) # <<>> /\ o.price <= best_bid(b)[1]

\* C5 as stated: after every successful book operation, when best_bid() and
\* best_ask() are both present the best bid price is strictly less than the
\* best ask price.
C5_NoCrossingAtRest == Uncrossed(book)

\* C5 as the code has it: add_order makes no crossing check.  On a book that
\* is not crossed, an add_order that returns Ok leaves the book not crossed
\* exactly when the order is not marketable (a buy strictly below the best
\* ask, a sell strictly above the best bid, or no opposite best price); a
\* marketable order is accepted as well and rests crossed or locked.
C5_AddOrderCrossesIffMarketable ==
    \A o \in CallerOrders :
        LET r == add_order(book, o)
        IN  (Uncrossed(book) /\ r.res = Ok) =>
                (Uncrossed(r.b) <=> ~Marketable(book, o))

\* C5 is exercised: a two-sided book that is not crossed, a buy inside the
\* spread that add_order accepts and that becomes the best bid below the ask,
\* and a buy at the ask that add_order accepts too.
C5_Witness ==
    /\ ~panicked
    /\ best_bid(book) # <<>>
    /\ best_ask(book) # <<>>
    /\ Uncrossed(book)
    /\ \E o \in FreshOrders :
           /\ o.side = "Buy"
           /\ o.price > best_bid(book)[1]
           /\ ~Marketable(book, o)
           /\ add_order(book, o).res = Ok
           /\ best_bid(add_order(book, o).b)[1] = o.price
           /\ best_ask(add_order(book, o).b) = best_ask(book)
    /\ \E o \in FreshOrders :
           /\ o.side = "Buy"
           /\ Marketable(book, o)
           /\ add_order(book, o).res = Ok
           /\ ~Uncrossed(add_order(book, o).b)

\* What a caller can observe of the book
Observables(b) ==
    [total_orders |-> total_orders(b),
     total_levels |-> total_levels(b),
     best_bid |-> best_bid(b),
     best_ask |-> best_ask(b),
     levels |-> get_levels(b, <<>>),
     volume_at_price |-> [p \in Prices |-> volume_at_price(b, p)],
     orders_at_price |-> [p \in Prices |-> orders_at_price(b, p)]]

\* C6: from any book in which o.id is not live, add_order(o) followed by
\* remove_order(o.id) leaves total_orders, total_levels, best_bid, best_ask,
\* get_levels(None) and volume_at_price / orders_at_price at every price as
\* they were before the add.
C6_AddThenRemoveIsIdentity ==
    \A o \in CallerOrders :
        ~contains_order(book, o.id) =>
            LET a == add_order(book, o)
            IN  a.res = Ok =>
                    LET r == remove_order(a.b, o.id)
                    IN  /\ r.res = Ok
                        /\ Observables(r.b) = Observables(book)

\* C7: add_order rejects an order with price 0 with InvalidPrice, an order
\* with quantity 0 with InvalidQuantity and an order whose id is live with
\* OrderAlreadyExists, whatever side and price the duplicate carries (when
\* several apply, the first of these in that order is reported); in each case
\* the book is left as it was.
C7_AddOrderRejects ==
    \A o \in CallerOrders :
        LET r == add_order(book, o)
        IN  /\ o.price = 0 => r.res = Err("InvalidPrice", o.price)
            /\ (o.price # 0 /\ o.quantity = 0) =>
                   r.res = Err("InvalidQuantity", o.quantity)
            /\ (o.price # 0 /\ o.quantity # 0 /\ contains_order(book, o.id)) =>
                   r.res = Err("OrderAlreadyExists", o.id)
            /\ (o.price = 0 \/ o.quantity = 0 \/ contains_order(book, o.id)) =>
                   /\ r.res.kind \in {"InvalidPrice", "InvalidQuantity",
                                      "OrderAlreadyExists"}
                   /\ r.b = book

\* C7 is exercised: the book holds an order, and add_order is offered its id
\* again with the other side and another price, and offered a zero price and
\* a zero quantity.
C7_Witness ==
    /\ ~panicked
    /\ \E o \in FreshOrders :
           /\ contains_order(book, o.id)
           /\ o.side # get_order(book, o.id)[1].side
           /\ o.price # get_order(book, o.id)[1].price
           /\ add_order(book, o).res = Err("OrderAlreadyExists", o.id)
    /\ \E o \in FreshOrders :
           /\ ~contains_order(book, o.id)
           /\ o.quantity # 0
           /\ add_order(book, o).res = Err("InvalidPrice", 0)
    /\ \E o \in FreshOrders :
           /\ ~contains_order(book, o.id)
           /\ o.price # 0
           /\ add_order(book, o).res = Err("InvalidQuantity", 0)

\* The sequence q with every occurrence of x left out
Without(q, x) ==
    LET Keep(y) == y # x IN SelectSeq(q, Keep)

\* C8: the queue of a level is in arrival order: an add_order that returns Ok
\* appends the order's id at the tail of the queue at its price and leaves
\* the other queues alone, and a remove_order that returns Ok takes the id
\* out of its queue and leaves the relative order of the others unchanged.
C8_QueuesAreFifo ==
    /\ \A o \in CallerOrders :
           LET r == add_order(book, o)
           IN  r.res = Ok =>
                   /\ QueueAt(r.b, o.price) = Append(QueueAt(book, o.price), o.id)
                   /\ \A p \in Prices \ {o.price} : QueueAt(r.b, p) = QueueAt(book, p)
    /\ \A id \in LiveIds(book) :
           LET r == remove_order(book, id)
           IN  r.res = Ok =>
                   \A p \in Prices : QueueAt(r.b, p) = Without(QueueAt(book, p), id)

\* C9: remove_order(id) on an id that is not live returns OrderNotFound(id);
\* on a live id it returns the order with that id, status Cancelled and
\* event_time equal to the book's current time, and afterwards
\* contains_order(id) is false, get_order(id) is None and total_orders() is
\* one less.
C9_RemoveOrderResult ==
    \A id \in Ids :
        LET r == remove_order(book, id)
        IN  IF ~contains_order(book, id)
            THEN /\ r.res = Err("OrderNotFound", id)
                 /\ r.order = <<>>
            ELSE /\ r.res = Ok
                 /\ r.order # <<>>
                 /\ r.order[1].id = id
                 /\ r.order[1].status = "Cancelled"
                 /\ r.order[1].event_time = book.current_time
                 /\ ~contains_order(r.b, id)
                 /\ get_order(r.b, id) = <<>>
                 /\ total_orders(r.b) = total_orders(book) - 1

\* C10: for a live, never-filled order o at price p, an update_order(o.id, q)
\* with q > 0 that returns Ok changes volume_at_price(p) to the prior size
\* plus (q - o.quantity), leaves orders_at_price(p) unchanged, and sets the
\* order's quantity and remaining_quantity to q.
C10_UpdateOrderAdjustsLevel ==
    \A id \in LiveIds(book), q \in Quantities \ {0} :
        get_order(book, id) # <<>> =>
            LET o == get_order(book, id)[1]
                p == o.price
                r == update_order(book, id, q)
            IN  (o.remaining_quantity = o.quantity /\ r.res = Ok) =>
                    /\ volume_at_price(book, p) # <<>>
                    /\ volume_at_price(r.b, p) =
                           <<volume_at_price(book, p)[1] + (q - o.quantity)>>
                    /\ orders_at_price(r.b, p) = orders_at_price(book, p)
                    /\ get_order(r.b, id) # <<>>
                    /\ get_order(r.b, id)[1].quantity = q
                    /\ get_order(r.b, id)[1].remaining_quantity = q

\* The queue links of a book: every order slot's next / prev / parent link
\* and every level slot's head / tail
Links(b) ==
    [orders |-> [i \in 1..Len(b.orders) |->
                    IF b.orders[i] = <<>> THEN <<>>
                    ELSE <<b.orders[i][1].next_order_index,
                           b.orders[i][1].prev_order_index,
                           b.orders[i][1].parent_limit_index>>],
     limits |-> [l \in 1..Len(b.limits) |->
                    IF b.limits[l] = <<>> THEN <<>>
                    ELSE <<b.limits[l][1].head_order_index,
                           b.limits[l][1].tail_order_index>>]]

\* C11: an update_order that returns Ok, whether it raises or lowers the
\* quantity, leaves the head and tail of every level and the next / prev /
\* parent link of every order as they were, so the queue at the order's price
\* lists the same ids in the same order, and it leaves the order's price,
\* side and entry_time as they were.
C11_UpdateOrderKeepsTimePriority ==
    \A id \in Ids, q \in Quantities :
        LET Kept(r) ==
                r.res = Ok =>
                    /\ Links(r.b) = Links(book)
                    /\ get_order(book, id) # <<>>
                    /\ get_order(r.b, id) # <<>>
                    /\ get_order(r.b, id)[1].price = get_order(book, id)[1].price
                    /\ get_order(r.b, id)[1].side = get_order(book, id)[1].side
                    /\ get_order(r.b, id)[1].entry_time = get_order(book, id)[1].entry_time
                    /\ QueueAt(r.b, get_order(book, id)[1].price)
                           = QueueAt(book, get_order(book, id)[1].price)
        IN  Kept(update_order(book, id, q))

\* Two orders queue at one price, and update_order raises the quantity of
\* the one and lowers the quantity of the other
C11_Witness ==
    /\ ~panicked
    /\ \E id1, id2 \in LiveIds(book) :
           /\ get_order(book, id1) # <<>>
           /\ get_order(book, id2) # <<>>
           /\ QueueAt(book, get_order(book, id1)[1].price) = <<id1, id2>>
           /\ get_order(book, id1)[1].remaining_quantity = 1
           /\ get_order(book, id2)[1].remaining_quantity = 2
           /\ update_order(book, id1, 2).res = Ok
           /\ update_order(book, id2, 1).res = Ok
           /\ volume_at_price(update_order(book, id1, 2).b,
                              get_order(book, id1)[1].price) # volume_at_price(book,
                              get_order(book, id1)[1].price)

\* C12: update_order(id, 0) returns Err(InvalidQuantity(0)); with a positive
\* quantity, update_order on an id that is not live returns
\* Err(OrderNotFound(id)), and update_order on a live order with a quantity
\* below what the order has already filled returns Err(InvalidQuantity(q));
\* in each case the book, and so the order and the aggregates of its level,
\* is as it was.
C12_UpdateOrderRejects ==
    \A id \in Ids, q \in Quantities :
        LET Rejected(r) ==
                /\ q = 0 =>
                       r.res = Err("InvalidQuantity", 0) /\ r.b = book
                /\ (q # 0 /\ ~contains_order(book, id)) =>
                       r.res = Err("OrderNotFound", id) /\ r.b = book
                /\ (/\ q # 0
                    /\ get_order(book, id) # <<>>
                    /\ q < filled_quantity(get_order(book, id)[1])) =>
                       /\ r.res = Err("InvalidQuantity", q)
                       /\ r.b = book
                       /\ get_order(r.b, id) = get_order(book, id)
                       /\ volume_at_price(r.b, get_order(book, id)[1].price)
                              = volume_at_price(book, get_order(book, id)[1].price)
                       /\ orders_at_price(r.b, get_order(book, id)[1].price)
                              = orders_at_price(book, get_order(book, id)[1].price)
        IN  Rejected(update_order(book, id, q))

\* A resting order has filled 2, another id is not live, and update_order
\* is refused for each of the three reasons
C12_Witness ==
    /\ ~panicked
    /\ \E id \in LiveIds(book), other \in Ids \ LiveIds(book) :
           /\ get_order(book, id) # <<>>
           /\ filled_quantity(get_order(book, id)[1]) = 2
           /\ update_order(book, id, 1).res = Err("InvalidQuantity", 1)
           /\ update_order(book, id, 0).res = Err("InvalidQuantity", 0)
           /\ update_order(book, other, 1).res = Err("OrderNotFound", other)

\* C13: for an order o of quantity 0 whose id is live, whatever price and
\* side o carries, process_order(o) leaves the book that remove_order(o.id)
\* leaves from the same book, and returns Ok, an error or panics exactly
\* when remove_order does.
C13_ProcessZeroIsRemove ==
    \A o \in CallerOrders :
        (o.quantity = 0 /\ contains_order(book, o.id)) =>
            LET Same(p, r) == p.b = r.b /\ p.res = r.res
            IN  Same(process_order(book, o), remove_order(book, o.id))

\* A live order is the only one at its price, and process_order with
\* quantity 0, another price and the other side takes it and its level out
C13_Witness ==
    /\ ~panicked
    /\ \E o \in FreshOrders :
           /\ o.quantity = 0
           /\ get_order(book, o.id) # <<>>
           /\ get_order(book, o.id)[1].price # o.price
           /\ get_order(book, o.id)[1].side # o.side
           /\ process_order(book, o).res = Ok
           /\ ~contains_order(process_order(book, o).b, o.id)
           /\ total_levels(process_order(book, o).b) = total_levels(book) - 1

\* C14: for an order o of positive quantity, process_order(o) on a live id
\* returns what update_order(o.id, o.quantity) returns and leaves the book it
\* leaves, the resting order keeping its price and side whatever o carries;
\* on an id that is not live it returns what add_order(o) returns and leaves
\* the book it leaves.
C14_ProcessDispatchesOnLiveness ==
    \A o \in CallerOrders :
        o.quantity > 0 =>
            LET Same(p, r) == p.b = r.b /\ p.res = r.res
                Kept(p) ==
                    p.res = Ok =>
                        /\ get_order(p.b, o.id) # <<>>
                        /\ get_order(book, o.id) # <<>>
                        /\ get_order(p.b, o.id)[1].price = get_order(book, o.id)[1].price
                        /\ get_order(p.b, o.id)[1].side = get_order(book, o.id)[1].side
                Updated(p) == Same(p, update_order(book, o.id, o.quantity)) /\ Kept(p)
                Added(p) == Same(p, add_order(book, o))
            IN  IF contains_order(book, o.id)
                THEN Updated(process_order(book, o))
                ELSE Added(process_order(book, o))

\* process_order changes the quantity of a live order while carrying another
\* price and the other side, and process_order adds an order under a new id
C14_Witness ==
    /\ ~panicked
    /\ \E o \in FreshOrders :
           /\ o.quantity > 0
           /\ get_order(book, o.id) # <<>>
           /\ get_order(book, o.id)[1].price # o.price
           /\ get_order(book, o.id)[1].side # o.side
           /\ get_order(book, o.id)[1].quantity # o.quantity
           /\ process_order(book, o).res = Ok
           /\ get_order(process_order(book, o).b, o.id)[1].quantity = o.quantity
    /\ \E o \in FreshOrders :
           /\ o.quantity > 0
           /\ ~contains_order(book, o.id)
           /\ process_order(book, o).res = Ok
           /\ contains_order(process_order(book, o).b, o.id)

\* C15 as stated: process_order(o) with o.quantity = 0 and an id that is not
\* live is rejected with InvalidQuantity, as add_order would reject it, and
\* the book is unchanged.
C15_ProcessZeroUnknownIsInvalidQuantity ==
    \A o \in CallerOrders :
        (o.quantity = 0 /\ ~contains_order(book, o.id)) =>
            /\ process_order(book, o).res = Err("InvalidQuantity", 0)
            /\ process_order(book, o).b = book

\* C15: process_order(o) with o.quantity = 0 and an id that is not live takes
\* the cancel branch, as every order of quantity 0 does: it returns the
\* Err(OrderNotFound(o.id)) of remove_order and the book is unchanged.
C15_ProcessZeroUnknownIsOrderNotFound ==
    \A o \in CallerOrders :
        (o.quantity = 0 /\ ~contains_order(book, o.id)) =>
            /\ process_order(book, o).res = Err("OrderNotFound", o.id)
            /\ process_order(book, o).res = remove_order(book, o.id).res
            /\ process_order(book, o).b = book

\* The book holds orders, and process_order of quantity 0 under an id that
\* is not live is refused
C15_Witness ==
    /\ ~panicked
    /\ total_orders(book) >= 2
    /\ \E o \in FreshOrders :
           /\ o.quantity = 0
           /\ o.price > 0
           /\ ~contains_order(book, o.id)
           /\ process_order(book, o).res.kind = "OrderNotFound"

\* A call returned an Err (it neither returned Ok nor panicked)
IsErr(r) == r.res.kind \notin {"Ok", "Panic"}

\* C16: whenever add_order, remove_order, update_order, process_order or
\* MatchingEngine::process_order returns an Err, the book (maps, arenas,
\* free lists, queues, level aggregates, trees, cached best prices, clock)
\* is the book before the call.
C16_ErrLeavesTheBookUnchanged ==
    LET Atomic(r) == IsErr(r) => r.b = book
    IN  /\ \A o \in CallerOrders :
               /\ Atomic(add_order(book, o))
               /\ Atomic(process_order(book, o))
               /\ Atomic(MatchingEngine_process_order(book, o))
        /\ \A id \in Ids :
               /\ Atomic(remove_order(book, id))
               /\ \A q \in Quantities : Atomic(update_order(book, id, q))

\* Both sides rest in the book and each of the five operations has an input
\* it refuses: the engine both for an order that would trade and for one
\* that would rest under a live id
C16_Witness ==
    /\ ~panicked
    /\ best_bid(book) # <<>>
    /\ best_ask(book) # <<>>
    /\ \E o \in FreshOrders : add_order(book, o).res.kind = "OrderAlreadyExists"
    /\ \E o \in FreshOrders : add_order(book, o).res.kind = "InvalidPrice"
    /\ \E o \in FreshOrders : process_order(book, o).res.kind = "OrderNotFound"
    /\ \E id \in Ids : remove_order(book, id).res.kind = "OrderNotFound"
    /\ \E id \in LiveIds(book) : update_order(book, id, 0).res.kind = "InvalidQuantity"
    /\ \E o \in FreshOrders :
           MatchingEngine_process_order(book, o).res.kind = "TreeError"
    /\ \E o \in FreshOrders :
           MatchingEngine_process_order(book, o).res.kind = "OrderAlreadyExists"

\* The largest and the smallest element of a non-empty set of numbers
MaxOf(S) == CHOOSE x \in S : \A y \in S : y <= x
MinOf(S) == CHOOSE x \in S : \A y \in S : x <= y

\* C17: spread() is None when the live buy orders or the live sell orders
\* are none; otherwise, with bid the highest live buy price and ask the
\* lowest live sell price, it is ask - bid when ask > bid and 0 when the book
\* is crossed or locked.  mid_price() is None when either side has no orders
\* and otherwise returns the floor of (bid + ask) / 2.
C17_SpreadAndMidPrice ==
    LET Quoted(bids, asks) ==
            IF bids = {} \/ asks = {}
            THEN spread(book) = <<>> /\ mid_price(book) = <<>>
            ELSE /\ spread(book) = <<IF MinOf(asks) > MaxOf(bids)
                                     THEN MinOf(asks) - MaxOf(bids) ELSE 0>>
                 /\ ~(debug_assertions /\ mid_price_overflows(book))
                 /\ mid_price(book) = <<(MaxOf(bids) + MinOf(asks)) \div 2>>
    IN  Quoted(LivePrices(book, "Buy"), LivePrices(book, "Sell"))

\* The depths a caller passes to get_levels
MaxDepth == 2
Depths == {<<>>} \cup {<<d>> : d \in 0..MaxDepth}

\* The live orders of a side at a price, and the sum of what remains of them
LiveAt(b, side, price) == {o \in LiveOrders(b) : o.side = side /\ o.price = price}

RECURSIVE SumOfRemaining(_)
SumOfRemaining(S) ==
    IF S = {} THEN 0
    ELSE LET o == CHOOSE x \in S : TRUE
         IN  o.remaining_quantity + SumOfRemaining(S \ {o})

\* The list of <<price, aggregate size>> of a side, in ascending price order
SideLevels(b, side) ==
    LET prices == SortAscending(LivePrices(b, side))
    IN  [i \in 1..Len(prices) |->
            <<prices[i], SumOfRemaining(LiveAt(b, side, prices[i]))>>]

\* C18: get_levels(depth) returns, as bids, every price holding live buy
\* orders in descending order and, as asks, every price holding live sell
\* orders in ascending order, each with the sum of what remains of that
\* side's orders at that price; under depth = Some(d) each list is the first
\* min(d, length) elements of the list under depth = None.
C18_GetLevels ==
    \A depth \in Depths :
        LET Listed(r) ==
                /\ ~r.panic
                /\ r.bids = Truncate(Reverse(SideLevels(book, "Buy")), depth)
                /\ r.asks = Truncate(SideLevels(book, "Sell"), depth)
        IN  Listed(get_levels(book, depth))

\* The orders a caller hands to the engine that add_order would accept: a
\* fresh Order::new with a positive price under an id that is not live
Incoming(b) == {o \in FreshOrders : o.price > 0 /\ ~contains_order(b, o.id)}

RECURSIVE SumOfTrades(_)
SumOfTrades(trades) ==
    IF trades = <<>> THEN 0 ELSE trades[1].quantity + SumOfTrades(Tail(trades))

\* What remains of an id in a book (0 when it is not live), and what rests
\* on a side in all
Residual(b, id) ==
    IF get_order(b, id) = <<>> THEN 0 ELSE get_order(b, id)[1].remaining_quantity
Resting(b, side) == SumOfRemaining({o \in LiveOrders(b) : o.side = side})
Opposite(side) == IF side = "Buy" THEN "Sell" ELSE "Buy"

\* C19: MatchingEngine::process_order(book, o) returns trades whose
\* quantities, added to what remains of o in the book afterwards, make o's
\* original quantity, and the quantity resting on the opposing side goes
\* down by exactly the sum of the trades' quantities.
C19_MatchingConservesQuantity ==
    \A o \in Incoming(book) :
        LET Conserved(r) ==
                r.res.kind # "Panic" =>
                    /\ r.res = Ok
                    /\ SumOfTrades(r.trades) + Residual(r.b, o.id) = o.quantity
                    /\ Resting(r.b, Opposite(o.side))
                           = Resting(book, Opposite(o.side)) - SumOfTrades(r.trades)
        IN  Conserved(MatchingEngine_process_order(book, o))

\* The best price of the side opposing an incoming order: <<>> or <<price>>
OpposingBest(b, side) ==
    IF side = "Buy"
    THEN (IF best_ask(b) = <<>> THEN <<>> ELSE <<best_ask(b)[1]>>)
    ELSE (IF best_bid(b) = <<>> THEN <<>> ELSE <<best_bid(b)[1]>>)

\* C20: every trade MatchingEngine::process_order makes for an incoming
\* order o names o as the aggressor and, as passive_order_id, the order at
\* the head of the queue at the opposing best price, and executes at that
\* price.  (The engine never changes the book while it matches, so the
\* opposing best and its queue at the moment of each trade are those of the
\* book before the call.)
C20_TradesNameTheHeadOfTheBestLevel ==
    \A o \in Incoming(book) :
        LET Prioritised(r) ==
                \A i \in 1..Len(r.pushed) :
                    /\ r.pushed[i].aggressor_order_id = o.id
                    /\ r.pushed[i].aggressor_side = o.side
                    /\ OpposingBest(book, o.side) = <<r.pushed[i].price>>
                    /\ QueueAt(book, r.pushed[i].price) # <<>>
                    /\ r.pushed[i].passive_order_id
                           = QueueAt(book, r.pushed[i].price)[1]
        IN  Prioritised(MatchingEngine_process_order(book, o))

\* The quantity resting on the opposing side at the prices an incoming order
\* o is willing to trade at
MarketableQuantity(b, o) ==
    SumOfRemaining({x \in LiveOrders(b) :
                       /\ x.side = Opposite(o.side)
                       /\ IF o.side = "Buy" THEN x.price <= o.price
                                            ELSE x.price >= o.price})

\* C21: for an incoming order o with resting quantity at marketable opposing
\* prices, MatchingEngine::process_order returns Ok with trades for the
\* smaller of o.quantity and that resting quantity; when o.quantity is the
\* larger, o rests afterwards on its own side at its limit price with what the
\* trades left of it; when o is consumed entirely, contains_order(o.id) is
\* false afterwards.
C21_ResidualRests ==
    \A o \in Incoming(book) :
        (o.quantity > 0 /\ MarketableQuantity(book, o) > 0) =>
            LET Rested(r) ==
                    r.res.kind # "Panic" =>
                        /\ r.res = Ok
                        /\ SumOfTrades(r.trades)
                               = Min(o.quantity, MarketableQuantity(book, o))
                        /\ IF o.quantity > MarketableQuantity(book, o)
                           THEN /\ get_order(r.b, o.id) # <<>>
                                /\ get_order(r.b, o.id)[1].side = o.side
                                /\ get_order(r.b, o.id)[1].price = o.price
                                /\ get_order(r.b, o.id)[1].remaining_quantity
                                       = o.quantity - SumOfTrades(r.trades)
                           ELSE ~contains_order(r.b, o.id)
            IN  Rested(MatchingEngine_process_order(book, o))

\* C22: every invocation of MatchingEngine::process_order, for every book
\* and every order a caller can pass, comes to an end by returning Ok or Err.
C22_EngineAlwaysReturns ==
    \A o \in CallerOrders :
        MatchingEngine_process_order(book, o).res.kind # "Panic"

\* C23: for an incoming order of positive price and quantity and a book
\* that holds fewer resting orders than MAX_ITERATIONS,
\* MatchingEngine::process_order returns Ok and never the TreeError of the
\* iteration limit.
C23_IterationLimitNeverTriggers ==
    \A o \in Incoming(book) :
        (o.quantity > 0 /\ total_orders(book) < MAX_ITERATIONS) =>
            LET Within(r) ==
                    r.res.kind # "Panic" => (r.res = Ok /\ r.res.kind # "TreeError")
            IN  Within(MatchingEngine_process_order(book, o))

\* C24: if the best bid is below the best ask, or a side is empty, before
\* MatchingEngine::process_order(book, o), then when the call has returned,
\* Ok or Err, the best bid is below the best ask whenever both exist.
C24_EngineLeavesNoCross ==
    \A o \in Incoming(book) :
        Uncrossed(book) =>
            LET Drained(r) == r.res.kind # "Panic" => Uncrossed(r.b)
            IN  Drained(MatchingEngine_process_order(book, o))

\* C25: on the Order the caller holds, fill(q, ts) returns
\* min(q, remaining_quantity) and lowers remaining_quantity by exactly that,
\* so remaining_quantity neither grows nor passes below zero; it stamps
\* event_time = ts, sets status to Filled when nothing remains and to
\* PartiallyFilled when 0 < remaining_quantity < quantity, and changes no
\* other field.
C25_FillReducesRemaining ==
    held # <<>> =>
        \A q \in Quantities, ts \in Times :
            LET Filled(o, after, returned) ==
                    /\ returned = Min(q, o.remaining_quantity)
                    /\ after.remaining_quantity = o.remaining_quantity - returned
                    /\ after.remaining_quantity <= o.remaining_quantity
                    /\ after.remaining_quantity >= 0
                    /\ after.event_time = ts
                    /\ after.remaining_quantity = 0 => after.status = "Filled"
                    /\ (/\ after.remaining_quantity > 0
                        /\ after.remaining_quantity < after.quantity)
                           => after.status = "PartiallyFilled"
                    /\ after = [o EXCEPT !.remaining_quantity = after.remaining_quantity,
                                         !.event_time = after.event_time,
                                         !.status = after.status]
            IN  Filled(held[1], fill(held[1], q, ts), fill_returns(held[1], q))

\* The caller holds an order of which 1 remains of 2: a fill of 2 is cut
\* down to 1 and fills the order
C25_Witness ==
    /\ held # <<>>
    /\ held[1].quantity = 2
    /\ held[1].remaining_quantity = 1
    /\ held[1].status = "PartiallyFilled"
    /\ fill_returns(held[1], 2) = 1
    /\ fill(held[1], 2, 1).status = "Filled"
    /\ fill(held[1], 2, 1).event_time # held[1].event_time

\* C26: on the Order the caller holds, update_quantity(new, ts) returns
\* false and leaves the order as it was when new is below the filled amount
\* quantity - remaining_quantity; otherwise it returns true, sets quantity
\* to new and remaining_quantity to new less the filled amount, which is
\* thereby preserved, and stamps event_time = ts.
C26_UpdateQuantityKeepsFilled ==
    held # <<>> =>
        \A new \in Quantities, ts \in Times :
            LET Updated(o, after, returned) ==
                    IF new < o.quantity - o.remaining_quantity
                    THEN ~returned /\ after = o
                    ELSE /\ returned
                         /\ after.quantity = new
                         /\ after.remaining_quantity
                                = new - (o.quantity - o.remaining_quantity)
                         /\ after.quantity - after.remaining_quantity
                                = o.quantity - o.remaining_quantity
                         /\ after.event_time = ts
            IN  Updated(held[1], update_quantity(held[1], new, ts),
                        update_quantity_ok(held[1], new))

\* The caller holds an order that has filled 1 of 2: update_quantity(0) is
\* refused and update_quantity(1) leaves nothing remaining
C26_Witness ==
    /\ held # <<>>
    /\ held[1].quantity = 2
    /\ held[1].remaining_quantity = 1
    /\ ~update_quantity_ok(held[1], 0)
    /\ update_quantity(held[1], 0, 1) = held[1]
    /\ update_quantity_ok(held[1], 1)
    /\ update_quantity(held[1], 1, 1).remaining_quantity = 0

\* The ids met in the queues of a book's levels
QueuedIds(b) ==
    UNION {{QueueIds(b, l)[i] : i \in 1..Len(QueueIds(b, l))} : l \in Levels(b)}

\* C27: no id is live in a new book; a call that returns changes the set of
\* live ids only as the lifecycle allows: add_order makes its id live exactly
\* when it returns Ok, remove_order and a process_order of quantity 0 retire
\* their id exactly when they return Ok, update_order and every call that
\* returns Err leave the set as it was; total_orders() is the number of live
\* ids; every order in a level's queue is live, and a cancelled id is in no
\* queue and not in the id map.
C27_OrderLifecycle ==
    /\ LiveIds(OrderBook_new) = {}
    /\ total_orders(book) = Cardinality({id \in Ids : contains_order(book, id)})
    /\ ~panicked => QueuedIds(book) \subseteq LiveIds(book)
    /\ \A o \in CallerOrders :
           LET Added(r) ==
                   r.res.kind # "Panic" =>
                       LiveIds(r.b) = IF r.res = Ok THEN LiveIds(book) \cup {o.id}
                                      ELSE LiveIds(book)
               Processed0(r) ==
                   r.res.kind # "Panic" =>
                       LiveIds(r.b) = IF r.res = Ok THEN LiveIds(book) \ {o.id}
                                      ELSE LiveIds(book)
               ProcessedQ(r) ==
                   r.res.kind # "Panic" =>
                       LiveIds(r.b) = IF r.res = Ok THEN LiveIds(book) \cup {o.id}
                                      ELSE LiveIds(book)
           IN  /\ Added(add_order(book, o))
               /\ IF o.quantity = 0 THEN Processed0(process_order(book, o))
                                    ELSE ProcessedQ(process_order(book, o))
    /\ \A id \in Ids :
           LET Removed(r) ==
                   r.res.kind # "Panic" =>
                       /\ r.res = Ok <=> contains_order(book, id)
                       /\ LiveIds(r.b) = LiveIds(book) \ {id}
                       /\ id \notin QueuedIds(r.b)
                       /\ get_order(r.b, id) = <<>>
               Updated(r) ==
                   r.res.kind # "Panic" =>
                       /\ LiveIds(r.b) = LiveIds(book)
                       /\ r.res = Ok => contains_order(r.b, id)
           IN  /\ Removed(remove_order(book, id))
               /\ \A q \in Quantities : Updated(update_order(book, id, q))

\* An id has been cancelled (its slot is free), another is live: cancelling
\* the live one retires it, updating it keeps it live, and the cancelled id
\* can be added again
C27_Witness ==
    /\ ~panicked
    /\ book.free_order_indices # <<>>
    /\ \E id \in LiveIds(book), gone \in Ids \ LiveIds(book) :
           /\ remove_order(book, id).res = Ok
           /\ ~contains_order(remove_order(book, id).b, id)
           /\ update_order(book, id, 1).res = Ok
           /\ contains_order(update_order(book, id, 1).b, id)
           /\ \E o \in FreshOrders :
                  /\ o.id = gone
                  /\ add_order(book, o).res = Ok
                  /\ contains_order(add_order(book, o).b, gone)

\* The level slots met going down the child links from a slot, vacant ones
\* included; the fuel stops a descent that has gone round a cycle
RECURSIVE TreeSlots(_, _, _)
TreeSlots(limits, idx, fuel) ==
    IF idx = NONE \/ fuel = 0 THEN {}
    ELSE IF ~Occupied(limits, idx) THEN {idx}
    ELSE {idx} \cup TreeSlots(limits, limits[idx][1].avl_node.left_child, fuel - 1)
               \cup TreeSlots(limits, limits[idx][1].avl_node.right_child, fuel - 1)

BuyTree(b) == TreeSlots(b.limits, b.buy_tree_root, Len(b.limits) + 1)
SellTree(b) == TreeSlots(b.limits, b.sell_tree_root, Len(b.limits) + 1)

\* The occupied level slots of a side that hold at least one order
LevelsWithOrders(b, side) ==
    {l \in Levels(b) : b.limits[l][1].side = side /\ b.limits[l][1].order_count > 0}

\* C28: after every book operation the slots reachable from buy_tree_root
\* are exactly the occupied Buy levels holding at least one order, those
\* reachable from sell_tree_root exactly the occupied Sell levels holding at
\* least one order, no slot is reachable from both roots, and every slot the
\* price map names is an occupied level holding at least one order.
C28_TreeSetCoherence ==
    ~panicked =>
        /\ BuyTree(book) = LevelsWithOrders(book, "Buy")
        /\ SellTree(book) = LevelsWithOrders(book, "Sell")
        /\ BuyTree(book) \cap SellTree(book) = {}
        /\ \A p \in DOMAIN book.price_to_limit_index :
               /\ Occupied(book.limits, book.price_to_limit_index[p])
               /\ book.limits[book.price_to_limit_index[p]][1].order_count > 0

\* What a level is apart from its place in the tree: its price, side,
\* aggregates and queue ends
Payload(limit) ==
    [price |-> limit.price, side |-> limit.side, size |-> limit.size,
     total_volume |-> limit.total_volume, order_count |-> limit.order_count,
     head_order_index |-> limit.head_order_index,
     tail_order_index |-> limit.tail_order_index]

\* The tree of the side a level is tagged with
TreeOf(b, side) == IF side = "Buy" THEN BuyTree(b) ELSE SellTree(b)

\* C29: when the last order of a level whose tree node has two children is
\* cancelled, remove_order returns Ok and removes exactly that level: its
\* price leaves the price map, every other level keeps its slot with its
\* own price, aggregates and queue and is reachable from the root of its
\* tree, and a later remove_order of any order still live returns Ok.
C29_TwoChildRemoval ==
    \A id \in LiveIds(book) :
        (/\ ~panicked
         /\ get_order(book, id) # <<>>
         /\ Occupied(book.limits, get_order(book, id)[1].parent_limit_index)
         /\ book.limits[get_order(book, id)[1].parent_limit_index][1].order_count = 1
         /\ book.limits[get_order(book, id)[1].parent_limit_index][1]
                .avl_node.left_child # NONE
         /\ book.limits[get_order(book, id)[1].parent_limit_index][1]
                .avl_node.right_child # NONE) =>
            LET Removed(r, price) ==
                    /\ r.res = Ok
                    /\ price \notin DOMAIN r.b.price_to_limit_index
                    /\ \A m \in Levels(book) \ {get_order(book, id)[1].parent_limit_index} :
                           /\ Occupied(r.b.limits, m)
                           /\ Payload(r.b.limits[m][1]) = Payload(book.limits[m][1])
                           /\ m \in TreeOf(r.b, book.limits[m][1].side)
                    /\ \A later \in LiveIds(r.b) : remove_order(r.b, later).res = Ok
            IN  Removed(remove_order(book, id), get_order(book, id)[1].price)

\* No duplicates in a sequence
IsInjective(s) == \A i, j \in 1..Len(s) : s[i] = s[j] => i = j

\* A link is absent or leads to an occupied slot
Sound(vec, idx) == idx = NONE \/ Occupied(vec, idx)

\* C30: each free list holds only vacant slots, each once, and every vacant
\* slot is on its free list (so the slot of a cancelled order and of an
\* emptied level is); and no vacant slot is named by the id map, the price
\* map, a queue head, tail, next or prev link, an order's parent level, a
\* tree root, a child or parent link of a tree node, or the cached best bid
\* and ask.
C30_NoDanglingSlots ==
    ~panicked =>
        /\ IsInjective(book.free_order_indices)
        /\ IsInjective(book.free_limit_indices)
        /\ {book.free_order_indices[i] : i \in 1..Len(book.free_order_indices)}
               = {i \in 1..Len(book.orders) : book.orders[i] = <<>>}
        /\ {book.free_limit_indices[i] : i \in 1..Len(book.free_limit_indices)}
               = {l \in 1..Len(book.limits) : book.limits[l] = <<>>}
        /\ \A id \in DOMAIN book.order_id_to_index :
               Occupied(book.orders, book.order_id_to_index[id])
        /\ \A p \in DOMAIN book.price_to_limit_index :
               Occupied(book.limits, book.price_to_limit_index[p])
        /\ \A i \in 1..Len(book.orders) :
               book.orders[i] # <<>> =>
                   /\ Sound(book.orders, book.orders[i][1].next_order_index)
                   /\ Sound(book.orders, book.orders[i][1].prev_order_index)
                   /\ Sound(book.limits, book.orders[i][1].parent_limit_index)
        /\ \A l \in Levels(book) :
               /\ Sound(book.orders, book.limits[l][1].head_order_index)
               /\ Sound(book.orders, book.limits[l][1].tail_order_index)
               /\ Sound(book.limits, book.limits[l][1].avl_node.left_child)
               /\ Sound(book.limits, book.limits[l][1].avl_node.right_child)
               /\ Sound(book.limits, book.limits[l][1].avl_node.parent)
        /\ Sound(book.limits, book.buy_tree_root)
        /\ Sound(book.limits, book.sell_tree_root)
        /\ Sound(book.limits, book.best_bid_index)
        /\ Sound(book.limits, book.best_ask_index)

\* The number of levels on the longest way down from a slot (0 for no slot or
\* a vacant one); the fuel stops a descent that has gone round a cycle
RECURSIVE HeightOf(_, _, _)
HeightOf(limits, idx, fuel) ==
    IF idx = NONE \/ fuel = 0 \/ ~Occupied(limits, idx) THEN 0
    ELSE LET Higher(left_height, right_height) ==
                 1 + IF left_height > right_height THEN left_height ELSE right_height
         IN  Higher(HeightOf(limits, limits[idx][1].avl_node.left_child, fuel - 1),
                    HeightOf(limits, limits[idx][1].avl_node.right_child, fuel - 1))

\* C31: in both side trees every node's stored height is 1 + the larger of
\* its children's heights, and the heights of its right and left subtrees
\* differ by at most 1.
C31_TreesAreAvlBalanced ==
    ~panicked =>
        \A l \in (BuyTree(book) \cup SellTree(book)) \cap Levels(book) :
            LET Node(left, right, fuel) ==
                    /\ book.limits[l][1].avl_node.height =
                           HeightOf(book.limits, l, fuel)
                    /\ HeightOf(book.limits, right, fuel)
                           - HeightOf(book.limits, left, fuel) \in {-1, 0, 1}
            IN  Node(book.limits[l][1].avl_node.left_child,
                     book.limits[l][1].avl_node.right_child,
                     Len(book.limits) + 1)

\* Every child link is answered by the child's parent link and every parent
\* link by one of the parent's child links; no link leads to a vacant slot
LinksAgree(limits) ==
    \A l \in {k \in 1..Len(limits) : Occupied(limits, k)} :
        LET Node(n) ==
                /\ n.left_child # NONE =>
                       /\ Occupied(limits, n.left_child)
                       /\ limits[n.left_child][1].avl_node.parent = l
                /\ n.right_child # NONE =>
                       /\ Occupied(limits, n.right_child)
                       /\ limits[n.right_child][1].avl_node.parent = l
                /\ n.left_child # NONE => n.left_child # n.right_child
                /\ n.parent # NONE =>
                       /\ Occupied(limits, n.parent)
                       /\ l \in {limits[n.parent][1].avl_node.left_child,
                                 limits[n.parent][1].avl_node.right_child}
        IN  Node(limits[l][1].avl_node)

\* The slot at the top of the tree a slot is in, going up the parent links
RECURSIVE TopOf(_, _, _)
TopOf(limits, idx, fuel) ==
    IF fuel = 0 \/ ~Occupied(limits, idx) THEN idx
    ELSE IF limits[idx][1].avl_node.parent = NONE THEN idx
    ELSE TopOf(limits, limits[idx][1].avl_node.parent, fuel - 1)

\* The slots of a subtree in order: left subtree, node, right subtree
RECURSIVE InOrder(_, _, _)
InOrder(limits, idx, fuel) ==
    IF idx = NONE \/ fuel = 0 THEN <<>>
    ELSE IF ~Occupied(limits, idx) THEN <<idx>>
    ELSE InOrder(limits, limits[idx][1].avl_node.left_child, fuel - 1)
             \o <<idx>>
             \o InOrder(limits, limits[idx][1].avl_node.right_child, fuel - 1)

\* The in-order sequence of the whole tree a slot is in, as slots and as prices
WholeTree(limits, idx) ==
    InOrder(limits, TopOf(limits, idx, Len(limits) + 1), Len(limits) + 1)
PricesAlong(limits, slots) ==
    [i \in 1..Len(slots) |->
        IF Occupied(limits, slots[i]) THEN limits[slots[i]][1].price ELSE 0]

\* The stored height of a node is 1 + the larger stored height of its children
HeightIsRecomputed(limits, idx) ==
    LET Higher(left_height, right_height) ==
            1 + IF left_height > right_height THEN left_height ELSE right_height
    IN  limits[idx][1].avl_node.height =
            Higher(calculate_height(limits, limits[idx][1].avl_node.left_child),
                   calculate_height(limits, limits[idx][1].avl_node.right_child))

\* What a rotation of the node in slot old_root that lifts the child in slot
\* new_root owes: it returns new_root, the in-order sequence of the whole tree
\* stays, new_root takes the place of old_root under old_root's parent, the
\* links agree, and the heights of the two nodes are recomputed.
RotationIsSound(limits, old_root, new_root, t) ==
    /\ ~t.panic
    /\ t.ret = new_root
    /\ WholeTree(t.b, old_root) = WholeTree(limits, old_root)
    /\ PricesAlong(t.b, WholeTree(t.b, old_root))
           = PricesAlong(limits, WholeTree(limits, old_root))
    /\ t.b[new_root][1].avl_node.parent = limits[old_root][1].avl_node.parent
    /\ LET Parent(p) ==
               p # NONE =>
                   /\ limits[p][1].avl_node.left_child = old_root
                          => t.b[p][1].avl_node.left_child = new_root
                   /\ limits[p][1].avl_node.right_child = old_root
                          => t.b[p][1].avl_node.right_child = new_root
                   /\ limits[p][1].avl_node.left_child # old_root
                          => t.b[p][1].avl_node.left_child
                                 = limits[p][1].avl_node.left_child
                   /\ limits[p][1].avl_node.right_child # old_root
                          => t.b[p][1].avl_node.right_child
                                 = limits[p][1].avl_node.right_child
       IN  Parent(limits[old_root][1].avl_node.parent)
    /\ t.b[old_root][1].avl_node.parent = new_root
    /\ LinksAgree(t.b)
    /\ HeightIsRecomputed(t.b, old_root)
    /\ HeightIsRecomputed(t.b, new_root)

\* C32: on a tree whose links agree, rotate_left(x) of a node with a right
\* child and rotate_right(y) of a node with a left child return that child,
\* keep the in-order sequence of slots and prices of the whole tree, put the
\* child where the node was under the node's parent, leave the links agreeing
\* and store in both nodes 1 + the larger height of their new children.
C32_RotationsAreSound ==
    (~panicked /\ LinksAgree(book.limits)) =>
        \A idx \in Levels(book) :
            /\ book.limits[idx][1].avl_node.right_child # NONE =>
                   RotationIsSound(book.limits, idx,
                                   book.limits[idx][1].avl_node.right_child,
                                   rotate_left(book.limits, idx))
            /\ book.limits[idx][1].avl_node.left_child # NONE =>
                   RotationIsSound(book.limits, idx,
                                   book.limits[idx][1].avl_node.left_child,
                                   rotate_right(book.limits, idx))

\* C32 witness: a left child of its parent that has a right child of its own
\* is rotated left, and the child takes its place as the parent's left child.
C32_Witness ==
    /\ ~panicked
    /\ LinksAgree(book.limits)
    /\ \E idx \in Levels(book) :
           LET Lifted(p, y, t) ==
                   /\ p # NONE
                   /\ y # NONE
                   /\ book.limits[p][1].avl_node.left_child = idx
                   /\ ~t.panic
                   /\ t.ret = y
                   /\ t.b[p][1].avl_node.left_child = y
                   /\ t.b[y][1].avl_node.left_child = idx
                   /\ t.b[y][1].avl_node.height = 2
           IN  Lifted(book.limits[idx][1].avl_node.parent,
                      book.limits[idx][1].avl_node.right_child,
                      rotate_left(book.limits, idx))

\* The subtree under a slot is AVL-balanced with correct stored heights: every
\* node stores its real height and its subtrees' heights differ by at most 1
IsAvl(limits, idx) ==
    \A l \in TreeSlots(limits, idx, Len(limits) + 1) :
        /\ Occupied(limits, l)
        /\ limits[l][1].avl_node.height = HeightOf(limits, l, Len(limits) + 1)
        /\ HeightOf(limits, limits[l][1].avl_node.right_child, Len(limits) + 1)
               - HeightOf(limits, limits[l][1].avl_node.left_child, Len(limits) + 1)
                   \in {-1, 0, 1}

\* The real balance factor of a node: height of the right subtree minus
\* height of the left subtree
Lean(limits, idx) ==
    HeightOf(limits, limits[idx][1].avl_node.right_child, Len(limits) + 1)
        - HeightOf(limits, limits[idx][1].avl_node.left_child, Len(limits) + 1)

\* Whether balance may be applied to the node in a slot: the links of the
\* tree agree, both subtrees are AVL-balanced with correct stored heights,
\* and the node's balance factor is in [-2, 2]
Balanceable(limits, idx) ==
    /\ LinksAgree(limits)
    /\ IsAvl(limits, limits[idx][1].avl_node.left_child)
    /\ IsAvl(limits, limits[idx][1].avl_node.right_child)
    /\ Lean(limits, idx) \in -2..2

\* What the child links of the arena say, apart from heights and parents
Shape(limits) ==
    [l \in {k \in 1..Len(limits) : Occupied(limits, k)} |->
        <<limits[l][1].avl_node.left_child, limits[l][1].avl_node.right_child>>]

\* C40: balance(n) on a node with AVL-balanced subtrees and balance factor in
\* [-2, 2] returns the root of a subtree with the same slots in the same
\* order and balance factor in {-1, 0, 1}; for |bf| <= 1 it returns n and
\* changes no child link; for bf = 2 (or -2) it returns n's right (left)
\* child after a single rotation or that child's left (right) child after a
\* double rotation, with n as the left (right) child of what it returns.
C40_BalanceRestoresTheBalance ==
    ~panicked =>
        \A n \in Levels(book) :
            Balanceable(book.limits, n) =>
                LET Balanced(t, bf, left, right) ==
                        /\ ~t.panic
                        /\ Occupied(t.b, t.ret)
                        /\ InOrder(t.b, t.ret, Len(t.b) + 1)
                               = InOrder(book.limits, n, Len(book.limits) + 1)
                        /\ Lean(t.b, t.ret) \in {-1, 0, 1}
                        /\ balance_factor(t.b, t.ret) \in {-1, 0, 1}
                        /\ bf \in {-1, 0, 1} =>
                               /\ t.ret = n
                               /\ Shape(t.b) = Shape(book.limits)
                        /\ bf = 2 =>
                               /\ t.ret \in {right,
                                             book.limits[right][1].avl_node.left_child}
                               /\ t.b[t.ret][1].avl_node.left_child = n
                        /\ bf = -2 =>
                               /\ t.ret \in {left,
                                             book.limits[left][1].avl_node.right_child}
                               /\ t.b[t.ret][1].avl_node.right_child = n
                IN  Balanced(balance(book.limits, n), Lean(book.limits, n),
                             book.limits[n][1].avl_node.left_child,
                             book.limits[n][1].avl_node.right_child)

\* C40 witness: a node whose right subtree is two levels higher than its
\* empty left subtree and leans left is balanced by a double rotation that
\* returns its right child's left child with balance factor 0.
C40_Witness ==
    /\ ~panicked
    /\ \E n \in Levels(book) :
           /\ Balanceable(book.limits, n)
           /\ Lean(book.limits, n) = 2
           /\ Lean(book.limits, book.limits[n][1].avl_node.right_child) = -1
           /\ LET Doubled(t, right) ==
                      /\ ~t.panic
                      /\ t.ret = book.limits[right][1].avl_node.left_child
                      /\ t.b[t.ret][1].avl_node.left_child = n
                      /\ t.b[t.ret][1].avl_node.right_child = right
                      /\ Lean(t.b, t.ret) = 0
              IN  Doubled(balance(book.limits, n),
                          book.limits[n][1].avl_node.right_child)

\* The incoming order finds no live opposing order at a price it would trade
\* at: a buy below every live sell price, a sell above every live buy price,
\* or no live opposing order at all
NonMarketable(b, o) ==
    \A p \in LivePrices(b, Opposite(o.side)) :
        IF o.side = "Buy" THEN o.price < p ELSE o.price > p

\* C33: for an incoming order o of positive quantity that is not marketable,
\* MatchingEngine::process_order makes no trade and returns what add_order(o)
\* returns with the book add_order(o) leaves: o rests under its id with its
\* full quantity at its price on its side, and the live orders and the best
\* price of the opposing side are those before the call.
C33_NonMarketableOrderRests ==
    ~panicked =>
        \A o \in Incoming(book) :
            (o.quantity > 0 /\ NonMarketable(book, o)) =>
                LET Rested(r, a) ==
                        /\ r.pushed = <<>>
                        /\ r.trades = <<>>
                        /\ r.res = a.res
                        /\ r.b = a.b
                        /\ r.res = Ok =>
                               /\ get_order(r.b, o.id) # <<>>
                               /\ get_order(r.b, o.id)[1].remaining_quantity = o.quantity
                               /\ get_order(r.b, o.id)[1].quantity = o.quantity
                               /\ get_order(r.b, o.id)[1].price = o.price
                               /\ get_order(r.b, o.id)[1].side = o.side
                               /\ o.id \in {QueueAt(r.b, o.price)[i] :
                                               i \in 1..Len(QueueAt(r.b, o.price))}
                               /\ {x \in LiveOrders(r.b) : x.side = Opposite(o.side)}
                                      = {x \in LiveOrders(book) : x.side = Opposite(o.side)}
                               /\ OpposingBest(r.b, o.side) = OpposingBest(book, o.side)
                IN  Rested(MatchingEngine_process_order(book, o), add_order(book, o))

\* C34: an add_order that returns Ok stores the order with event_time equal to
\* the book's current_time, whatever event_time the caller's Order carries,
\* and with the caller's entry_time; an update_order that returns Ok leaves
\* the order with event_time equal to current_time and its entry_time as it
\* was; a remove_order that returns Ok returns the order with event_time equal
\* to current_time and its entry_time as it was; none of them moves the clock.
C34_EventTimeStamping ==
    ~panicked =>
        /\ \A o \in CallerOrders :
               LET Added(r) ==
                       r.res = Ok =>
                           /\ get_order(r.b, o.id) # <<>>
                           /\ get_order(r.b, o.id)[1].event_time = book.current_time
                           /\ get_order(r.b, o.id)[1].entry_time = o.entry_time
                           /\ r.b.current_time = book.current_time
               IN  Added(add_order(book, o))
        /\ \A id \in LiveIds(book) :
               /\ LET Removed(r) ==
                          r.res = Ok =>
                              /\ r.order # <<>>
                              /\ r.order[1].event_time = book.current_time
                              /\ r.order[1].entry_time = get_order(book, id)[1].entry_time
                              /\ r.b.current_time = book.current_time
                  IN  Removed(remove_order(book, id))
               /\ \A q \in Quantities :
                      LET Updated(r) ==
                              r.res = Ok =>
                                  /\ get_order(r.b, id) # <<>>
                                  /\ get_order(r.b, id)[1].event_time = book.current_time
                                  /\ get_order(r.b, id)[1].entry_time
                                         = get_order(book, id)[1].entry_time
                                  /\ r.b.current_time = book.current_time
                      IN  Updated(update_order(book, id, q))

\* C34 witness: the clock was moved on after an order was stored, so the
\* order's event_time is behind it, and add_order, update_order and
\* remove_order each return Ok and stamp the later time.
C34_Witness ==
    /\ ~panicked
    /\ book.current_time > 0
    /\ \E id \in LiveIds(book), q \in Quantities, o \in FreshOrders :
           /\ get_order(book, id) # <<>>
           /\ get_order(book, id)[1].event_time < book.current_time
           /\ update_order(book, id, q).res = Ok
           /\ get_order(update_order(book, id, q).b, id)[1].event_time
                  = book.current_time
           /\ remove_order(book, id).res = Ok
           /\ remove_order(book, id).order[1].event_time = book.current_time
           /\ add_order(book, o).res = Ok
           /\ get_order(add_order(book, o).b, o.id)[1].event_time = book.current_time
           /\ o.event_time # book.current_time

\* The level in slot l carries the exact sum of what remains of the orders in
\* its queue, and price * that sum as its notional
IsExact(b, l) ==
    /\ b.limits[l][1].size = SumRemaining(b.orders, QueueOf(b, l))
    /\ b.limits[l][1].total_volume
           = b.limits[l][1].price * SumRemaining(b.orders, QueueOf(b, l))

\* C35: on a level whose aggregates are exact, an add_order of any quantity up
\* to the largest and an update_order to any quantity neither fail in their
\* arithmetic nor wrap: when they return Ok the level's size is again the
\* exact sum of what remains of its orders and total_volume is price * size,
\* and an accepted order of positive quantity is never refused for its size.
C35_AggregatesDoNotOverflow ==
    ~panicked =>
        \A p \in DOMAIN book.price_to_limit_index :
            LET Level(l) ==
                    (Occupied(book.limits, l) /\ IsExact(book, l)) =>
                        /\ \A o \in Incoming(book) :
                               (o.price = p /\ o.quantity > 0) =>
                                   LET Added(r) ==
                                           /\ r.res = Ok
                                           /\ Occupied(r.b.limits, l)
                                           /\ IsExact(r.b, l)
                                   IN  Added(add_order(book, o))
                        /\ \A i \in 1..Len(QueueOf(book, l)), q \in 0..(QMod - 1) :
                               LET Updated(r) ==
                                       /\ r.res.kind # "Panic"
                                       /\ r.res = Ok =>
                                              /\ Occupied(r.b.limits, l)
                                              /\ IsExact(r.b, l)
                               IN  Updated(update_order(book,
                                               book.orders[QueueOf(book, l)[i]][1].id, q))
            IN  Level(book.price_to_limit_index[p])

\* C36: every order in the queue of a level has the side the level is tagged
\* with, the level best_ask_index names is not a Buy level and the level
\* best_bid_index names is not a Sell level.
C36_LevelsHoldOneSide ==
    ~panicked =>
        /\ \A l \in Levels(book) :
               \A i \in 1..Len(QueueOf(book, l)) :
                   book.orders[QueueOf(book, l)[i]][1].side = book.limits[l][1].side
        /\ Sound(book.limits, book.best_ask_index)
        /\ Sound(book.limits, book.best_bid_index)
        /\ book.best_ask_index # NONE =>
               book.limits[book.best_ask_index][1].side = "Sell"
        /\ book.best_bid_index # NONE =>
               book.limits[book.best_bid_index][1].side = "Buy"

\* The queue of the level in slot l is well-formed: the walk from the head
\* meets no order twice, is the reverse of the walk from the tail, and has
\* order_count orders
IsWellFormedQueue(b, l) ==
    /\ IsInjective(QueueOf(b, l))
    /\ QueueOf(b, l) = Reverse(QueueBackOf(b, l))
    /\ Len(QueueOf(b, l)) = b.limits[l][1].order_count

\* C37: when every queue is well-formed and the Order that the remove_order
\* just before returned is passed to add_order while its id is not live, the
\* order is stored with next = None and prev = the tail its level had (None
\* for a new level), every queue is well-formed afterwards, and every queue
\* is well-formed after any remove_order that follows.
C37_ReAddedOrderIsAppended ==
    (/\ ~panicked
     /\ held # <<>>
     /\ \A l \in Levels(book) : IsWellFormedQueue(book, l)) =>
        LET ReAdded(r, o) ==
                (~contains_order(book, o.id) /\ r.res = Ok) =>
                    /\ get_order(r.b, o.id) # <<>>
                    /\ get_order(r.b, o.id)[1].next_order_index = NONE
                    /\ get_order(r.b, o.id)[1].prev_order_index =
                           (IF o.price \in DOMAIN book.price_to_limit_index
                            THEN book.limits[book.price_to_limit_index[o.price]][1]
                                     .tail_order_index
                            ELSE NONE)
                    /\ \A l \in Levels(r.b) : IsWellFormedQueue(r.b, l)
                    /\ \A id \in LiveIds(r.b) :
                           LET Cancelled(c) ==
                                   /\ c.res = Ok
                                   /\ \A l \in Levels(c.b) : IsWellFormedQueue(c.b, l)
                           IN  Cancelled(remove_order(r.b, id))
        IN  ReAdded(add_order(book, held[1]), held[1])

\* The orders resting at a price, as the book stores them
RestingAt(b, price) == {o \in LiveOrders(b) : o.price = price}

\* What the book holds at the prices other than p, and the best price on the
\* side opposing side
Frame(b, p, side) ==
    [volume_at_price |-> [q \in Prices \ {p} |-> volume_at_price(b, q)],
     orders_at_price |-> [q \in Prices \ {p} |-> orders_at_price(b, q)],
     queue |-> [q \in Prices \ {p} |-> QueueAt(b, q)],
     orders |-> [q \in Prices \ {p} |-> RestingAt(b, q)],
     opposing_best |-> OpposingBest(b, side)]

\* C38: an add_order, remove_order or update_order that returns Ok for an
\* order at price p leaves, at every other price, volume_at_price,
\* orders_at_price, the queue and every resting order as they were, and
\* leaves the best price of the side opposing the order's as it was.
C38_OtherPricesAreUntouched ==
    ~panicked =>
        /\ \A o \in CallerOrders :
               LET Framed(r) ==
                       r.res = Ok =>
                           Frame(r.b, o.price, o.side) = Frame(book, o.price, o.side)
               IN  Framed(add_order(book, o))
        /\ \A id \in LiveIds(book) :
               get_order(book, id) # <<>> =>
                   LET Framed(r, o) ==
                           r.res = Ok =>
                               Frame(r.b, o.price, o.side) = Frame(book, o.price, o.side)
                   IN  /\ Framed(remove_order(book, id), get_order(book, id)[1])
                       /\ \A q \in Quantities :
                              Framed(update_order(book, id, q), get_order(book, id)[1])

\* The tree under a root is a binary search tree on price: every slot it
\* reaches is an occupied level, the in-order walk meets no level twice and
\* reads strictly increasing prices, every price in a node's left subtree is
\* lower and every price in its right subtree higher than the node's, the
\* root has no parent and every child's parent link names its holder.
IsSearchTree(limits, root) ==
    LET Walk(slots) ==
            /\ \A i \in 1..Len(slots) : Occupied(limits, slots[i])
            /\ IsInjective(slots)
            /\ \A i \in 1..(Len(slots) - 1) :
                   limits[slots[i]][1].price < limits[slots[i + 1]][1].price
        Node(l, n) ==
            /\ \A k \in TreeSlots(limits, n.left_child, Len(limits) + 1) :
                   Occupied(limits, k) /\ limits[k][1].price < limits[l][1].price
            /\ \A k \in TreeSlots(limits, n.right_child, Len(limits) + 1) :
                   Occupied(limits, k) /\ limits[k][1].price > limits[l][1].price
            /\ n.left_child # NONE =>
                   /\ Occupied(limits, n.left_child)
                   /\ limits[n.left_child][1].avl_node.parent = l
            /\ n.right_child # NONE =>
                   /\ Occupied(limits, n.right_child)
                   /\ limits[n.right_child][1].avl_node.parent = l
    IN  /\ Walk(InOrder(limits, root, Len(limits) + 1))
        /\ root # NONE =>
               /\ Occupied(limits, root)
               /\ limits[root][1].avl_node.parent = NONE
        /\ \A l \in TreeSlots(limits, root, Len(limits) + 1) :
               Occupied(limits, l) /\ Node(l, limits[l][1].avl_node)

\* C39: after every book operation the tree under buy_tree_root and the tree
\* under sell_tree_root are binary search trees on price with parent links
\* that agree with the child links.
C39_SideTreesAreSearchTrees ==
    ~panicked =>
        /\ IsSearchTree(book.limits, book.buy_tree_root)
        /\ IsSearchTree(book.limits, book.sell_tree_root)

=============================================================================
